---- MODULE Spec2Model ----
(***************************************************************************)
(* xp-tracker: the polling-and-store subsystem.                            *)
(*                                                                         *)
(*   pkg/store/store.go       MemoryStore (ReplaceClaims, ReplaceXRs,      *)
(*                            EnrichClaimCompositions, objectKey)          *)
(*   pkg/kube/convert.go      the resource converter                       *)
(*   pkg/kube (poller)        Poller.Run / poll / pollClaims / pollXRs /   *)
(*                            pollNamespaceConfigsList / pollClaimsScoped  *)
(*   pkg/kube (watcher)       ConfigMapWatcher registry                    *)
(*   pkg/store/s3store.go     S3Store.Persist                              *)
(*                                                                         *)
(* Payload fields that no operation of this subsystem reads (Group, Kind,  *)
(* Creator, Team, Ready, Reason, CreatedAt) are left out of the records.   *)
(***************************************************************************)
EXTENDS Integers, Sequences, FiniteSets, TLC

VARIABLES
    claims,            \* MemoryStore.claims : key -> ClaimInfo
    xrs,               \* MemoryStore.xrs    : key -> XRInfo
    lastOp,            \* the last store call: operation, arguments, caller
    cluster,           \* objects served by the Kubernetes API
    cfg,               \* the central config.Config of the process
    configs,           \* ConfigMapWatcher.configs : "ns/name" -> NamespaceConfig
    pc,                \* position of the poller goroutine
    hadErrors,         \* poll(): var hadErrors
    nsErrors,          \* pollNamespaceConfigsList(): var hadErrors
    centralClaimGVRs,  \* poll(): centralClaimGVRs
    centralXRGVRs,     \* poll(): centralXRGVRs
    nsConfigs,         \* poll(): the registry snapshot of this cycle
    ci,                \* index into nsConfigs / into the central GVR lists
    gi,                \* index into the current config's GVR list
    durable,           \* the snapshot object in the durable backend
    listFailed,        \* some list call of the current cycle failed
    persistCalled,     \* Persist was invoked in the current cycle
    replaced,          \* <<role, gvr>> partitions replaced in the current cycle
    evicted,           \* <<role, gvr, key>> entries removed as stale in the cycle
    cycle,             \* what the current cycle has done so far
    polled,            \* poll() has returned at least once
    ready,             \* Server.ready
    view,              \* what the last reader of the store obtained
    mu,                \* MemoryStore.mu: "W" while a writer is in its critical section
    call,              \* the store call in progress, or the last one made
    restored,          \* what the one S3Store.Restore of the process did
    lastEv,            \* the last informer event processed for each registry key
    ctx                \* the context Run was given: cancelled or not

vars == <<claims, xrs, lastOp, cluster, cfg, configs, pc, hadErrors, nsErrors,
          centralClaimGVRs, centralXRGVRs, nsConfigs, ci, gi, durable,
          listFailed, persistCalled, replaced, evicted, cycle,
          polled, ready, view, mu, call, restored, lastEv, ctx>>

storeVars  == <<claims, xrs>>
pollerVars == <<pc, hadErrors, nsErrors, centralClaimGVRs, centralXRGVRs, nsConfigs, ci, gi>>
ghostVars  == <<listFailed, persistCalled, replaced, evicted, cycle>>
serverVars == <<ready, view, mu, call, restored, ctx>>
auxVars    == <<polled, serverVars, lastEv>>

-----------------------------------------------------------------------------
(* Bounds *)

MaxItems == 2          \* length of an items list handed to the store API

-----------------------------------------------------------------------------
(* Universe of resource types, namespaces and API objects *)

GVR(g, v, r) == [Group |-> g, Version |-> v, Resource |-> r]

Widgets  == GVR("g", "v1", "widgets")
Gadgets  == GVR("g", "v1", "gadgets")
XWidgets == GVR("g", "v1", "xwidgets")

\* An unstructured object: its resource type, metadata.namespace,
\* metadata.name, the value of its composition label ("" when absent) and
\* spec.resourceRef.name ("" when absent).
Obj(gvr, ns, name, label, ref) ==
    [gvr |-> gvr, ns |-> ns, name |-> name, label |-> label, ref |-> ref]

\* The objects that may exist in the cluster.
ObjUniverse ==
    { Obj(Widgets,  "team-a", "db", "",      "xr-1"),
      Obj(Widgets,  "team-b", "db", "own",   ""),
      Obj(XWidgets, "",       "xr-1", "comp-a", "") }

\* The raw objects handed to the converter when the store API is driven
\* directly: two objects of one key with different payloads, and an object
\* without namespace.
RawObjects ==
    { Obj(Widgets,  "team-a", "db", "",      "xr-1"),
      Obj(Gadgets,  "team-a", "db", "own",   "xr-1"),
      Obj(XWidgets, "",       "xr-1", "comp-a", "") }

StoreGVRs == {Widgets, Gadgets}

\* GVRString (convert.go)
GVRString(gvr) == gvr.Group \o "/" \o gvr.Version \o "/" \o gvr.Resource

\* ConvertKeys (convert.go)
CompositionLabelKey == "crossplane.io/composition-name"

KeysFromConfig(c) ==
    [CreatorAnnotationKey |-> c.CreatorAnnotationKey,
     TeamAnnotationKey |-> c.TeamAnnotationKey,
     CompositionLabelKey |-> c.CompositionLabelKey, Source |-> "central"]

KeysFromNamespaceConfig(nsCfg, centralCfg) ==
    [CreatorAnnotationKey |-> nsCfg.CreatorAnnotationKey,
     TeamAnnotationKey |-> nsCfg.TeamAnnotationKey,
     CompositionLabelKey |-> centralCfg.CompositionLabelKey, Source |-> "namespace"]

\* UnstructuredToClaimWithKeys (convert.go)
UnstructuredToClaimWithKeys(obj, gvr, keys) ==
    [GVR         |-> GVRString(gvr),
     Namespace   |-> obj.ns,
     Name        |-> obj.name,
     Source      |-> keys.Source,
     XRRef       |-> obj.ref,
     Composition |-> IF keys.CompositionLabelKey # "" /\ obj.label # ""
                     THEN obj.label ELSE ""]

\* UnstructuredToXRWithKeys (convert.go)
UnstructuredToXRWithKeys(obj, gvr, keys) ==
    [GVR         |-> GVRString(gvr),
     Namespace   |-> obj.ns,
     Name        |-> obj.name,
     Source      |-> keys.Source,
     Composition |-> IF keys.CompositionLabelKey # "" THEN obj.label ELSE ""]

-----------------------------------------------------------------------------
(* MemoryStore (store.go) *)

\* objectKey
objectKey(namespace, name) ==
    IF namespace = "" THEN name ELSE namespace \o "/" \o name

ItemKeys(items) == { objectKey(items[i].Namespace, items[i].Name) : i \in 1..Len(items) }

\* An upsert that overwrites an entry the map already had with the last item
\* of its key, and gives a key new to the map the first item of that key.
UpsertFirstOfNew(m, items) ==
    LET newKeys == ItemKeys(items)
        Of(k) == { i \in 1..Len(items) :
                      objectKey(items[i].Namespace, items[i].Name) = k }
        FirstOf(k) == items[CHOOSE i \in Of(k) : \A j \in Of(k) : i <= j]
        LastOf(k) == items[CHOOSE i \in Of(k) : \A j \in Of(k) : j <= i]
    IN [k \in (DOMAIN m) \cup newKeys |->
           IF k \notin newKeys THEN m[k]
           ELSE IF k \in DOMAIN m THEN LastOf(k) ELSE FirstOf(k)]

\* The first loop of ReplaceClaims / ReplaceXRs: s.claims[key] = c for every
\* item in order, so the last item of a key is the one that stays.
Upsert(m, items) ==
    LET newKeys == ItemKeys(items)
        LastOf(k) ==
            LET i == CHOOSE i \in 1..Len(items) :
                        /\ objectKey(items[i].Namespace, items[i].Name) = k
                        /\ \A j \in (i+1)..Len(items) :
                              objectKey(items[j].Namespace, items[j].Name) # k
            IN items[i]
    IN [k \in (DOMAIN m) \cup newKeys |-> IF k \in newKeys THEN LastOf(k) ELSE m[k]]

\* A second loop that finds nothing to delete.
StaleKeysNone(m, gvr, items) == {}

\* The second loop: entries of this GVR whose key is not in newKeys are deleted.
StaleKeys(m, gvr, items) ==
    { k \in DOMAIN m : m[k].GVR = gvr /\ k \notin ItemKeys(items) }

\* A replace that only upserts.
RemoveStaleNever(m, gvr, items) == m

RemoveStale(m, gvr, items) ==
    [k \in (DOMAIN m) \ StaleKeys(m, gvr, items) |-> m[k]]

\* ReplaceClaims / ReplaceXRs as one critical section.
Replace(m, gvr, items) == RemoveStale(Upsert(m, items), gvr, items)

\* An enrichment that clears the composition of every claim whose reference
\* is empty or is not found.
EnrichClearing(cl, xr) ==
    [k \in DOMAIN cl |->
        IF cl[k].XRRef # "" /\ cl[k].XRRef \in DOMAIN xr
        THEN [cl[k] EXCEPT !.Composition = xr[cl[k].XRRef].Composition]
        ELSE [cl[k] EXCEPT !.Composition = ""]]

\* An enrichment that fills in only claims that have no composition yet.
EnrichOnlyEmpty(cl, xr) ==
    [k \in DOMAIN cl |->
        IF cl[k].XRRef # "" /\ cl[k].XRRef \in DOMAIN xr /\ cl[k].Composition = ""
        THEN [cl[k] EXCEPT !.Composition = xr[cl[k].XRRef].Composition]
        ELSE cl[k]]

\* EnrichClaimCompositions: XRs are looked up by claim.XRRef.
Enrich(cl, xr) ==
    [k \in DOMAIN cl |->
        IF cl[k].XRRef = "" THEN cl[k]
        ELSE IF cl[k].XRRef \in DOMAIN xr
             THEN [cl[k] EXCEPT !.Composition = xr[cl[k].XRRef].Composition]
             ELSE cl[k]]

EmptyMap == [k \in {} |-> k]
RecordsOf(m) == { m[k] : k \in DOMAIN m }

\* SnapshotClaims / SnapshotXRs: a copy of the values of the map.
SnapshotClaims == RecordsOf(claims)
SnapshotXRs == RecordsOf(xrs)

\* poll() has just been entered: no poll function called (attempted), none
\* has returned an error (errs), no list has succeeded (ok), the registry not
\* read, no enrichment made;
\* failed holds the namespaces whose list failed in the last poll step (""
\* for a cluster-wide list), after tells how the cycle before this one ended
\* ("none", "ok", "failed" for list errors, "unsaved" for a Persist error).
NoCycle ==
    [attempted |-> {}, errs |-> {}, failed |-> {}, ok |-> FALSE, reads |-> 0,
     enriched |-> 0, after |-> "none"]

NoOp ==
    [op |-> "none", gvr |-> "", n |-> 0, keys |-> {}, nss |-> {}, removed |-> {},
     caller |-> "", scopes |-> {}, ns |-> ""]

\* A store call: the operation, its gvr argument, the number, the identity keys
\* and the namespaces of its items, the keys it removed as stale, the calling
\* function, the namespaces its lists were scoped to ("" is cluster-wide) and
\* the owning namespace of the NamespaceConfig it was made for.
Op(op, gvr, items, removed, caller, scopes, ns) ==
    [op |-> op, gvr |-> gvr, n |-> Len(items), keys |-> ItemKeys(items),
     nss |-> { items[i].Namespace : i \in 1..Len(items) },
     removed |-> removed, caller |-> caller, scopes |-> scopes, ns |-> ns]

-----------------------------------------------------------------------------
(* The store API driven directly, with items produced by the converter *)

SeqsUpTo(S, n) == UNION { [1..k -> S] : k \in 0..n }

ConvertClaims(raw, gvr, keys) ==
    [i \in 1..Len(raw) |-> UnstructuredToClaimWithKeys(raw[i], gvr, keys)]
ConvertXRs(raw, gvr, keys) ==
    [i \in 1..Len(raw) |-> UnstructuredToXRWithKeys(raw[i], gvr, keys)]

DefaultCfg ==
    [ClaimGVRs |-> <<>>, XRGVRs |-> <<>>, Namespaces |-> <<>>,
     CreatorAnnotationKey |-> "", TeamAnnotationKey |-> "",
     CompositionLabelKey |-> CompositionLabelKey,
     StoreBackend |-> "memory", Watch |-> FALSE]

NoSnapshot == [present |-> FALSE, claims |-> {}, xrs |-> {}]

\* No reader has taken a snapshot yet.
NoView == [taken |-> FALSE]

\* No store call has been made yet.
NoCall == [op |-> "none"]

\* The context of run(): not cancelled. A cancelled context keeps, in at,
\* whether the poller was inside poll() ("cycle") or not ("idle") when the
\* signal arrived.
Background == [done |-> FALSE, at |-> ""]

\* Restore has not been called: run() calls it once, before anything else
\* uses the store.
NoRestore == [called |-> FALSE, got |-> "", err |-> FALSE, fresh |-> FALSE]

\* The process has just started: nothing polled, server not ready, no reader,
\* lock free, no store call, no restore attempted, no informer event, context
\* not cancelled.
AuxInit ==
    /\ polled = FALSE
    /\ ready = FALSE
    /\ view = NoView
    /\ mu = ""
    /\ call = NoCall
    /\ restored = NoRestore
    /\ lastEv = EmptyMap
    /\ ctx = Background

InitStore ==
    /\ claims = EmptyMap
    /\ xrs = EmptyMap
    /\ lastOp = NoOp
    /\ cluster = {}
    /\ cfg = DefaultCfg
    /\ configs = EmptyMap
    /\ pc = "api"
    /\ hadErrors = FALSE
    /\ nsErrors = FALSE
    /\ centralClaimGVRs = {}
    /\ centralXRGVRs = {}
    /\ nsConfigs = <<>>
    /\ ci = 0
    /\ gi = 0
    /\ durable = NoSnapshot
    /\ listFailed = FALSE
    /\ persistCalled = FALSE
    /\ replaced = {}
    /\ evicted = {}
    /\ cycle = NoCycle
    /\ AuxInit

ApiReplaceClaims ==
    /\ pc = "api"
    /\ \E gvr \in StoreGVRs, raw \in SeqsUpTo(RawObjects, MaxItems) :
          LET items == ConvertClaims(raw, gvr, KeysFromConfig(cfg))
          IN /\ claims' = Replace(claims, GVRString(gvr), items)
             /\ lastOp' = Op("ReplaceClaims", GVRString(gvr), items,
                             StaleKeys(Upsert(claims, items), GVRString(gvr), items),
                             "api", {}, "")
    /\ UNCHANGED <<xrs, cluster, cfg, configs, pollerVars, durable, ghostVars>>
    /\ UNCHANGED auxVars

ApiReplaceXRs ==
    /\ pc = "api"
    /\ \E gvr \in StoreGVRs, raw \in SeqsUpTo(RawObjects, MaxItems) :
          LET items == ConvertXRs(raw, gvr, KeysFromConfig(cfg))
          IN /\ xrs' = Replace(xrs, GVRString(gvr), items)
             /\ lastOp' = Op("ReplaceXRs", GVRString(gvr), items,
                             StaleKeys(Upsert(xrs, items), GVRString(gvr), items),
                             "api", {}, "")
    /\ UNCHANGED <<claims, cluster, cfg, configs, pollerVars, durable, ghostVars>>
    /\ UNCHANGED auxVars

ApiEnrich ==
    /\ pc = "api"
    /\ claims' = Enrich(claims, xrs)
    /\ lastOp' = Op("Enrich", "", <<>>, {}, "api", {}, "")
    /\ UNCHANGED <<xrs, cluster, cfg, configs, pollerVars, durable, ghostVars>>
    /\ UNCHANGED auxVars

NextStore == ApiReplaceClaims \/ ApiReplaceXRs \/ ApiEnrich

SpecStore == InitStore /\ [][NextStore]_vars

-----------------------------------------------------------------------------
(* The program: central configuration, cluster, registry, poller *)

\* config.Config as the poller reads it; Watch tells whether a namespace
\* config provider was set on the poller (p.nsConfigs != nil).
Cfg(claimGVRs, xrGVRs, namespaces, backend, watch) ==
    [ClaimGVRs |-> claimGVRs, XRGVRs |-> xrGVRs, Namespaces |-> namespaces,
     CreatorAnnotationKey |-> "", TeamAnnotationKey |-> "",
     CompositionLabelKey |-> CompositionLabelKey,
     StoreBackend |-> backend, Watch |-> watch]

\* The central configurations the process may be started with: GVRs only
\* from namespace ConfigMaps; central GVRs with namespace ConfigMaps; central
\* GVRs with KUBE_NAMESPACE_SCOPE set and no namespace ConfigMaps.
CentralConfigs ==
    { Cfg(<<>>,        <<>>,         <<>>,                   "memory", TRUE),
      Cfg(<<Widgets>>, <<XWidgets>>, <<>>,                   "memory", TRUE),
      Cfg(<<Widgets>>, <<XWidgets>>, <<"team-a", "team-b">>, "s3",     FALSE) }

\* A labelled ConfigMap: metadata.namespace, metadata.name, the GVR lists of
\* its data (CLAIM_GVRS, XR_GVRS) and the other members of its data;
\* malformed stands for a GVR string that ParseGVRs rejects.
ConfigMapWithData(ns, claimGVRs, xrGVRs, malformed, data) ==
    [Namespace |-> ns, Name |-> "xp-tracker-gvrs",
     CLAIM_GVRS |-> claimGVRs, XR_GVRS |-> xrGVRs, malformed |-> malformed,
     data |-> data]

\* A ConfigMap whose data has the GVR lists only.
ConfigMap(ns, claimGVRs, xrGVRs, malformed) ==
    ConfigMapWithData(ns, claimGVRs, xrGVRs, malformed, EmptyMap)

\* data[key] of a Go map[string]string: the empty string for a missing key.
DataValue(cm, key) == IF key \in DOMAIN cm.data THEN cm.data[key] ELSE ""

\* A parse that takes the value of the data as it is.
AnnotationKeyNotInherited(value, central) == value

\* The lines of ParseNamespaceConfigMap for an annotation key: the value of
\* the data, or the central one when that value is empty.
AnnotationKey(value, central) == IF value = "" THEN central ELSE value

ConfigMaps ==
    { ConfigMap("team-a", <<Widgets>>, <<XWidgets>>, FALSE),
      ConfigMap("team-a", <<>>,        <<Widgets>>,  FALSE),
      ConfigMap("team-a", <<>>,        <<>>,         FALSE),
      ConfigMap("team-b", <<Widgets>>, <<>>,         FALSE),
      ConfigMap("team-b", <<Widgets>>, <<>>,         TRUE) }

\* ParseNamespaceConfigMap (namespace_config.go); the result carries ok = FALSE
\* where the function returns an error.
ParseNamespaceConfigMap(cm, fallback) ==
    IF cm.malformed \/ (Len(cm.CLAIM_GVRS) = 0 /\ Len(cm.XR_GVRS) = 0)
    THEN [ok |-> FALSE]
    ELSE [ok |-> TRUE,
          cfg |-> [Namespace |-> cm.Namespace, ConfigMapName |-> cm.Name,
                   ClaimGVRs |-> cm.CLAIM_GVRS, XRGVRs |-> cm.XR_GVRS,
                   CreatorAnnotationKey |->
                       AnnotationKey(DataValue(cm, "CREATOR_ANNOTATION_KEY"),
                                     fallback.CreatorAnnotationKey),
                   TeamAnnotationKey |->
                       AnnotationKey(DataValue(cm, "TEAM_ANNOTATION_KEY"),
                                     fallback.TeamAnnotationKey)]]

\* An upsert that keeps the entry of the key when the object does not parse.
upsertKeepingOnError(cm) ==
    LET key == cm.Namespace \o "/" \o cm.Name
        parsed == ParseNamespaceConfigMap(cm, cfg)
    IN IF ~parsed.ok
       THEN configs' = configs
       ELSE configs' = [k \in (DOMAIN configs) \cup {key} |->
                           IF k = key THEN parsed.cfg ELSE configs[k]]

\* An upsert that empties the registry when the object does not parse.
upsertClearingOnError(cm) ==
    LET key == cm.Namespace \o "/" \o cm.Name
        parsed == ParseNamespaceConfigMap(cm, cfg)
    IN IF ~parsed.ok
       THEN configs' = EmptyMap
       ELSE configs' = [k \in (DOMAIN configs) \cup {key} |->
                           IF k = key THEN parsed.cfg ELSE configs[k]]

\* ConfigMapWatcher.upsert
upsert(cm) ==
    LET key == cm.Namespace \o "/" \o cm.Name
        parsed == ParseNamespaceConfigMap(cm, cfg)
    IN IF ~parsed.ok
       THEN configs' = [k \in (DOMAIN configs) \ {key} |-> configs[k]]
       ELSE configs' = [k \in (DOMAIN configs) \cup {key} |->
                           IF k = key THEN parsed.cfg ELSE configs[k]]

\* What a registry handler leaves alone, lastEv apart.
RegistryFrame ==
    UNCHANGED <<storeVars, lastOp, cluster, cfg, pollerVars, durable, ghostVars,
                polled, serverVars>>

\* ConfigMapWatcher.onAdd(cm)
onAddOf(cm) ==
    /\ cfg.Watch
    /\ upsert(cm)
    /\ RegistryFrame

\* ConfigMapWatcher.onUpdate(_, cm)
onUpdateOf(cm) ==
    /\ cfg.Watch
    /\ upsert(cm)
    /\ RegistryFrame

\* ConfigMapWatcher.onDelete(cm)
onDeleteOf(cm) ==
    /\ cfg.Watch
    /\ LET key == cm.Namespace \o "/" \o cm.Name
       IN configs' = [k \in (DOMAIN configs) \ {key} |-> configs[k]]
    /\ RegistryFrame

\* The informer delivers an add event.
onAdd == \E cm \in ConfigMaps : onAddOf(cm) /\ UNCHANGED lastEv

\* The informer delivers an update event, for an object it has delivered
\* before and that is in the registry.
onUpdate ==
    \E cm \in ConfigMaps :
        /\ (cm.Namespace \o "/" \o cm.Name) \in DOMAIN configs
        /\ onUpdateOf(cm)
        /\ UNCHANGED lastEv

\* The informer delivers a delete event.
onDelete == \E cm \in ConfigMaps : onDeleteOf(cm) /\ UNCHANGED lastEv

\* ConfigMapWatcher.NamespaceConfigs: a copy of the entries in the iteration
\* order of the map, which Go leaves unspecified.
RECURSIVE Orderings(_)
Orderings(S) ==
    IF S = {} THEN { <<>> }
    ELSE UNION { { <<x>> \o rest : rest \in Orderings(S \ {x}) } : x \in S }

\* A provider that hands out the registry as it was when the watcher started.
NamespaceConfigsAtStart == { <<>> }

NamespaceConfigs == { [i \in 1..Len(o) |-> configs[o[i]]] : o \in Orderings(DOMAIN configs) }

\* Objects are created and deleted in the cluster while the poller waits for
\* its next tick.
ClusterChange ==
    /\ pc \in {"start", "idle"}
    /\ \E o \in ObjUniverse :
          cluster' = IF o \in cluster THEN cluster \ {o} ELSE cluster \cup {o}
    /\ UNCHANGED <<storeVars, lastOp, cfg, configs, pollerVars, durable, ghostVars>>
    /\ UNCHANGED auxVars

\* ri.List with paging followed to the end: every object of the resource
\* type, in the namespace when one is given, in the order of the API server.
RECURSIVE SetToSeq(_)
SetToSeq(S) ==
    IF S = {} THEN <<>>
    ELSE LET x == CHOOSE x \in S : TRUE IN <<x>> \o SetToSeq(S \ {x})

List(gvr, namespace) ==
    SetToSeq({ o \in cluster : o.gvr = gvr /\ (namespace = "" \/ o.ns = namespace) })

\* A loop over the namespaces that ends at the first list that fails.
RECURSIVE ListEachUntilError(_, _, _, _)
ListEachUntilError(gvr, nss, failed, i) ==
    IF i > Len(nss) \/ i \in failed THEN <<>>
    ELSE List(gvr, nss[i]) \o ListEachUntilError(gvr, nss, failed, i + 1)

\* listClaims / listXRs over the namespaces of seq nss whose index is not in
\* failed, appended in order (the else branch of pollClaims / pollXRs).
RECURSIVE ListEach(_, _, _, _)
ListEach(gvr, nss, failed, i) ==
    IF i > Len(nss) THEN <<>>
    ELSE (IF i \in failed THEN <<>> ELSE List(gvr, nss[i]))
         \o ListEach(gvr, nss, failed, i + 1)

SeqToSet(s) == { s[i] : i \in 1..Len(s) }

\* A scoped list that drops the namespace.
ScopedListClusterWide(gvr, namespace) == List(gvr, "")

\* pollClaimsScoped: ri := p.client.Resource(gvr).Namespace(namespace), then
\* the paged ri.List.
ScopedList(gvr, namespace) == List(gvr, namespace)

-----------------------------------------------------------------------------
(* Poller.poll, one step per pollXRs / pollClaims / pollXRsWithKeys /
   pollClaimsScoped call *)

\* The position after the central loops of poll().
AfterCentral == <<"nsRead", 0, 0>>

AfterCentralClaim(i) ==
    IF i < Len(cfg.ClaimGVRs) THEN <<"centralClaim", i + 1, 0>> ELSE AfterCentral

CentralClaimStart ==
    IF Len(cfg.ClaimGVRs) > 0 THEN <<"centralClaim", 1, 0>> ELSE AfterCentral

\* A cycle that reads the registry right after the composite loop.
AfterCentralXRToRegistry(i) ==
    IF i < Len(cfg.XRGVRs) THEN <<"centralXR", i + 1, 0>> ELSE <<"nsRead", 0, 0>>

AfterCentralXR(i) ==
    IF i < Len(cfg.XRGVRs) THEN <<"centralXR", i + 1, 0>> ELSE CentralClaimStart

CentralXRStart ==
    IF Len(cfg.XRGVRs) > 0 THEN <<"centralXR", 1, 0>> ELSE CentralClaimStart

\* The positions of pollNamespaceConfigsList over the snapshot cs.
NsConfigStart(cs, c) ==
    IF c > Len(cs) THEN <<"enrich", 0, 0>>
    ELSE IF Len(cs[c].XRGVRs) > 0 THEN <<"nsXR", c, 1>>
    ELSE <<"nsClaim", c, 1>>

AfterNsClaim(cs, c, g) ==
    IF g < Len(cs[c].ClaimGVRs) THEN <<"nsClaim", c, g + 1>> ELSE NsConfigStart(cs, c + 1)

AfterNsXR(cs, c, g) ==
    IF g < Len(cs[c].XRGVRs) THEN <<"nsXR", c, g + 1>>
    ELSE IF Len(cs[c].ClaimGVRs) > 0 THEN <<"nsClaim", c, 1>>
    ELSE NsConfigStart(cs, c + 1)

Goto(pos) == pc' = pos[1] /\ ci' = pos[2] /\ gi' = pos[3]

\* p.store.ReplaceClaims(gvrStr, items) made by caller.
StoreReplaceClaims(gvrStr, items, caller, scopes, ns) ==
    /\ claims' = Replace(claims, gvrStr, items)
    /\ LET stale == StaleKeys(Upsert(claims, items), gvrStr, items)
       IN /\ lastOp' = Op("ReplaceClaims", gvrStr, items, stale, caller, scopes, ns)
          /\ evicted' = evicted \cup { <<"claim", gvrStr, k>> : k \in stale }
    /\ replaced' = replaced \cup { <<"claim", gvrStr>> }
    /\ UNCHANGED xrs

\* p.store.ReplaceXRs(gvrStr, items) made by caller.
StoreReplaceXRs(gvrStr, items, caller, scopes, ns) ==
    /\ xrs' = Replace(xrs, gvrStr, items)
    /\ LET stale == StaleKeys(Upsert(xrs, items), gvrStr, items)
       IN /\ lastOp' = Op("ReplaceXRs", gvrStr, items, stale, caller, scopes, ns)
          /\ evicted' = evicted \cup { <<"xr", gvrStr, k>> : k \in stale }
    /\ replaced' = replaced \cup { <<"xr", gvrStr>> }
    /\ UNCHANGED claims

NoStoreCall == UNCHANGED <<claims, xrs, lastOp, replaced, evicted>>

\* A list of the poll function returned items: pollXRs / pollClaims make one
\* list per namespace of the filter when there is one; every other poll
\* function makes one list.
SomeListSucceeded(ns, failed) ==
    IF ns = "" /\ Len(cfg.Namespaces) > 0
    THEN failed # SeqToSet(cfg.Namespaces)
    ELSE failed = {}

\* A poll function was called for the GVR (role "xr" or "claim") on behalf of
\* the NamespaceConfig of namespace ns ("" for the central configuration),
\* and the lists of the namespaces in failed returned an error.
Attempt(role, gvrStr, ns, failed) ==
    cycle' = [cycle EXCEPT !.attempted = @ \cup {<<role, gvrStr, ns>>},
                           !.errs = IF failed # {} THEN @ \cup {<<role, gvrStr, ns>>} ELSE @,
                           !.ok = @ \/ SomeListSucceeded(ns, failed),
                           !.failed = failed]

\* The GVR was skipped as centrally polled: no poll function was called.
Skip == cycle' = [cycle EXCEPT !.failed = {}]

\* A cycle that ends at the first poll function that returns an error.
AfterStepAborting(err, next) == IF err THEN <<"done", 0, 0>> ELSE next

\* poll() and pollNamespaceConfigsList: the body of `if err := ...; err != nil`
\* sets hadErrors, counts and logs, and the loop goes on with the next GVR.
AfterStep(err, next) == next

\* pollClaims / pollXRs with a namespace filter: `if len(errs) > 0 { ...
\* return errs[0] }`, where failed holds the namespaces whose list failed.
PartialError(failed) == failed # {}

\* poll(): `if err := p.pollXRs(ctx, gvr); err != nil { hadErrors = true }`;
\* failure tells whether a list call of the step failed.
Report(err, failure) ==
    /\ hadErrors' = (hadErrors \/ err)
    /\ listFailed' = (listFailed \/ failure)
    /\ UNCHANGED nsErrors

\* pollNamespaceConfigsList: `if err := ...; err != nil { hadErrors = true }`
\* on its own hadErrors, which poll() merges into its hadErrors when the
\* function returns (next is the position after this step).
ReportNs(err, failure, next) ==
    /\ nsErrors' = (nsErrors \/ err)
    /\ hadErrors' = IF next[1] = "enrich" THEN (hadErrors \/ nsErrors') ELSE hadErrors
    /\ listFailed' = (listFailed \/ failure)

\* The start of poll(): the locals of a new cycle.
PollBegin ==
    /\ hadErrors' = FALSE
    /\ nsErrors' = FALSE
    /\ centralClaimGVRs' = {}
    /\ centralXRGVRs' = {}
    /\ nsConfigs' = <<>>
    /\ listFailed' = FALSE
    /\ persistCalled' = FALSE
    /\ replaced' = {}
    /\ evicted' = {}
    /\ cycle' = [NoCycle EXCEPT !.after = cycle.after]
    /\ Goto(CentralXRStart)
    /\ UNCHANGED <<storeVars, lastOp, cluster, cfg, configs, durable>>
    /\ UNCHANGED auxVars

\* Run: the initial poll, before the ticker is awaited.
RunInitialPoll ==
    /\ pc = "start"
    /\ PollBegin

\* A Run that starts poll() for a tick while a poll() call is still running.
ReceivesTickAnytime(pos) == pos \notin {"start", "returned"}

\* Run receives from ticker.C in the select of its loop only: poll() is
\* called in the goroutine of Run, so a tick that fires during a cycle waits
\* in the channel of the ticker (or is dropped) until poll() has returned.
ReceivesTick(pos) == pos = "idle"

\* Run: case <-ticker.C
Tick ==
    /\ ReceivesTick(pc)
    /\ PollBegin

\* pollXRs(gvr) for the next central XR GVR.
pollXRs ==
    /\ pc = "centralXR"
    /\ LET gvr == cfg.XRGVRs[ci]
           gvrStr == GVRString(gvr)
           namespaces == cfg.Namespaces
       IN /\ centralXRGVRs' = centralXRGVRs \cup {gvrStr}
          /\ IF Len(namespaces) = 0
             THEN \E err \in BOOLEAN :
                     /\ Report(err, err)
                     /\ Attempt("xr", gvrStr, "", IF err THEN {""} ELSE {})
                     /\ IF err THEN NoStoreCall
                        ELSE StoreReplaceXRs(gvrStr,
                                ConvertXRs(List(gvr, ""), gvr, KeysFromConfig(cfg)),
                                "pollXRs", {""}, "")
             ELSE \E failed \in SUBSET (1..Len(namespaces)) :
                     /\ Report(PartialError(failed), failed # {})
                     /\ Attempt("xr", gvrStr, "", { namespaces[i] : i \in failed })
                     /\ StoreReplaceXRs(gvrStr,
                           ConvertXRs(ListEach(gvr, namespaces, failed, 1), gvr,
                                      KeysFromConfig(cfg)),
                           "pollXRs", SeqToSet(namespaces), "")
    /\ Goto(AfterStep(cycle'.failed # {}, AfterCentralXR(ci)))
    /\ UNCHANGED <<cluster, cfg, configs, centralClaimGVRs, nsConfigs, durable, persistCalled>>
    /\ UNCHANGED auxVars

\* pollClaims(gvr) for the next central claim GVR.
pollClaims ==
    /\ pc = "centralClaim"
    /\ LET gvr == cfg.ClaimGVRs[ci]
           gvrStr == GVRString(gvr)
           namespaces == cfg.Namespaces
       IN /\ centralClaimGVRs' = centralClaimGVRs \cup {gvrStr}
          /\ IF Len(namespaces) = 0
             THEN \E err \in BOOLEAN :
                     /\ Report(err, err)
                     /\ Attempt("claim", gvrStr, "", IF err THEN {""} ELSE {})
                     /\ IF err THEN NoStoreCall
                        ELSE StoreReplaceClaims(gvrStr,
                                ConvertClaims(List(gvr, ""), gvr, KeysFromConfig(cfg)),
                                "pollClaims", {""}, "")
             ELSE \E failed \in SUBSET (1..Len(namespaces)) :
                     /\ Report(PartialError(failed), failed # {})
                     /\ Attempt("claim", gvrStr, "", { namespaces[i] : i \in failed })
                     /\ StoreReplaceClaims(gvrStr,
                           ConvertClaims(ListEach(gvr, namespaces, failed, 1), gvr,
                                         KeysFromConfig(cfg)),
                           "pollClaims", SeqToSet(namespaces), "")
    /\ Goto(AfterStep(cycle'.failed # {}, AfterCentralClaim(ci)))
    /\ UNCHANGED <<cluster, cfg, configs, centralXRGVRs, nsConfigs, durable, persistCalled>>
    /\ UNCHANGED auxVars

\* poll(): `if p.nsConfigs != nil { nsConfigs := p.nsConfigs.NamespaceConfigs() ...`
ReadRegistry ==
    /\ pc = "nsRead"
    /\ IF cfg.Watch
       THEN \E cs \in NamespaceConfigs :
               /\ nsConfigs' = cs
               /\ Goto(NsConfigStart(cs, 1))
       ELSE /\ nsConfigs' = <<>>
            /\ Goto(<<"enrich", 0, 0>>)
    /\ cycle' = [cycle EXCEPT !.reads = IF cfg.Watch THEN @ + 1 ELSE @,
                              !.failed = {}]
    /\ UNCHANGED <<storeVars, lastOp, cluster, cfg, configs, hadErrors, nsErrors,
                   centralClaimGVRs, centralXRGVRs, durable, listFailed,
                   persistCalled, replaced, evicted>>
    /\ UNCHANGED auxVars

\* pollNamespaceConfigsList: the next XR GVR of the current config, skipped
\* when it is in centralXRGVRs, else pollXRsWithKeys(gvr, "", keys).
pollXRsWithKeys ==
    /\ pc = "nsXR"
    /\ LET nsCfg == nsConfigs[ci]
           keys == KeysFromNamespaceConfig(nsCfg, cfg)
           gvr == nsCfg.XRGVRs[gi]
           gvrStr == GVRString(gvr)
           next == AfterNsXR(nsConfigs, ci, gi)
       IN IF gvrStr \in centralXRGVRs
          THEN NoStoreCall /\ ReportNs(FALSE, FALSE, next) /\ Skip
          ELSE \E err \in BOOLEAN :
                  /\ ReportNs(err, err, next)
                  /\ Attempt("xr", gvrStr, nsCfg.Namespace, IF err THEN {""} ELSE {})
                  /\ IF err THEN NoStoreCall
                     ELSE StoreReplaceXRs(gvrStr, ConvertXRs(List(gvr, ""), gvr, keys),
                                          "pollXRsWithKeys", {""}, nsCfg.Namespace)
    /\ Goto(AfterStep(cycle'.failed # {}, AfterNsXR(nsConfigs, ci, gi)))
    /\ UNCHANGED <<cluster, cfg, configs, centralClaimGVRs, centralXRGVRs, nsConfigs,
                   durable, persistCalled>>
    /\ UNCHANGED auxVars

\* pollNamespaceConfigsList: the next claim GVR of the current config, skipped
\* when it is in centralClaimGVRs, else pollClaimsScoped(gvr, nsCfg.Namespace, keys).
pollClaimsScoped ==
    /\ pc = "nsClaim"
    /\ LET nsCfg == nsConfigs[ci]
           keys == KeysFromNamespaceConfig(nsCfg, cfg)
           gvr == nsCfg.ClaimGVRs[gi]
           gvrStr == GVRString(gvr)
           next == AfterNsClaim(nsConfigs, ci, gi)
       IN IF gvrStr \in centralClaimGVRs
          THEN NoStoreCall /\ ReportNs(FALSE, FALSE, next) /\ Skip
          ELSE \E err \in BOOLEAN :
                  /\ ReportNs(err, err, next)
                  /\ Attempt("claim", gvrStr, nsCfg.Namespace,
                             IF err THEN {nsCfg.Namespace} ELSE {})
                  /\ IF err THEN NoStoreCall
                     ELSE StoreReplaceClaims(gvrStr,
                             ConvertClaims(ScopedList(gvr, nsCfg.Namespace), gvr, keys),
                             "pollClaimsScoped", {nsCfg.Namespace}, nsCfg.Namespace)
    /\ Goto(AfterStep(cycle'.failed # {}, AfterNsClaim(nsConfigs, ci, gi)))
    /\ UNCHANGED <<cluster, cfg, configs, centralClaimGVRs, centralXRGVRs, nsConfigs,
                   durable, persistCalled>>
    /\ UNCHANGED auxVars

\* An enrichment that is left out when a list of the cycle failed.
EnrichesOnSuccess(errors) == ~errors

\* poll(): the call of EnrichClaimCompositions stands after the loops under
\* no condition, hadErrors is not looked at before the persistence step.
Enriches(errors) == TRUE

\* poll(): p.store.EnrichClaimCompositions()
EnrichClaimCompositions ==
    /\ pc = "enrich"
    /\ IF Enriches(hadErrors)
       THEN /\ claims' = Enrich(claims, xrs)
            /\ lastOp' = Op("Enrich", "", <<>>, {}, "poll", {}, "")
            /\ cycle' = [cycle EXCEPT !.enriched = @ + 1, !.failed = {}]
       ELSE /\ UNCHANGED <<claims, lastOp>>
            /\ cycle' = [cycle EXCEPT !.failed = {}]
    /\ Goto(<<"persist", 0, 0>>)
    /\ UNCHANGED <<xrs, cluster, cfg, configs, hadErrors, nsErrors, centralClaimGVRs,
                   centralXRGVRs, nsConfigs, durable, listFailed, persistCalled,
                   replaced, evicted>>
    /\ UNCHANGED auxVars

\* json.Marshal of a ClaimInfo: one member per field, named by its json tag.
MarshalClaim(c) ==
    [gvr |-> c.GVR, namespace |-> c.Namespace, name |-> c.Name,
     composition |-> c.Composition, source |-> c.Source, xrRef |-> c.XRRef]

\* json.Marshal of an XRInfo.
MarshalXR(x) ==
    [gvr |-> x.GVR, namespace |-> x.Namespace, name |-> x.Name,
     composition |-> x.Composition, source |-> x.Source]

\* json.Unmarshal into a ClaimInfo / an XRInfo.
UnmarshalClaim(j) ==
    [GVR |-> j.gvr, Namespace |-> j.namespace, Name |-> j.name,
     Source |-> j.source, XRRef |-> j.xrRef, Composition |-> j.composition]
UnmarshalXR(j) ==
    [GVR |-> j.gvr, Namespace |-> j.namespace, Name |-> j.name,
     Source |-> j.source, Composition |-> j.composition]

\* S3Store.Persist: the snapshot of both maps is encoded and written to the
\* one object, unless PutObject fails.
Snapshot ==
    [present |-> TRUE,
     claims |-> { MarshalClaim(c) : c \in SnapshotClaims },
     xrs |-> { MarshalXR(x) : x \in SnapshotXRs }]

\* A poller that stops persisting once Persist has returned an error.
ShouldPersistUntilFailure(errors, backend) ==
    ~errors /\ backend = "s3" /\ cycle.after # "unsaved"

\* A persistence decision that does not look at hadErrors.
ShouldPersistAlways(errors, backend) == backend = "s3"

\* poll(): `if hadErrors { skip } else if ps, ok := p.store.(PersistentStore); ok`
ShouldPersist(errors, backend) == ~errors /\ backend = "s3"

\* poll(): the persistence step, after which poll() returns.
Persist ==
    /\ pc = "persist"
    /\ IF ~ShouldPersist(hadErrors, cfg.StoreBackend)
       THEN UNCHANGED <<durable, persistCalled>>
       ELSE /\ persistCalled' = TRUE
            /\ \E err \in BOOLEAN :
                  durable' = IF err THEN durable ELSE Snapshot
    /\ Goto(<<"done", 0, 0>>)
    /\ UNCHANGED <<storeVars, lastOp, cluster, cfg, configs, hadErrors, nsErrors,
                   centralClaimGVRs, centralXRGVRs, nsConfigs, listFailed, replaced,
                   evicted, cycle>>
    /\ polled' = TRUE
    /\ UNCHANGED <<serverVars, lastEv>>

\* A loop that ends when a cycle had errors.
AfterPollFatal(errors) == IF errors THEN "returned" ELSE "idle"

\* Run: poll() returns nothing, and the `for { select {...} }` is entered
\* again whatever the cycle did.
AfterPoll(errors) == "idle"

\* The cycle had a list error, or its Persist call returned an error.
CycleFailed == hadErrors \/ (persistCalled /\ durable # Snapshot)

\* poll() returns and Run is back in the select of its loop, waiting for the
\* ticker; the locals of poll() are gone.
AwaitTick ==
    /\ pc = "done"
    /\ pc' = AfterPoll(CycleFailed)
    /\ hadErrors' = FALSE
    /\ nsErrors' = FALSE
    /\ centralClaimGVRs' = {}
    /\ centralXRGVRs' = {}
    /\ nsConfigs' = <<>>
    /\ ci' = 0
    /\ gi' = 0
    /\ lastOp' = NoOp
    /\ listFailed' = FALSE
    /\ persistCalled' = FALSE
    /\ replaced' = {}
    /\ evicted' = {}
    /\ cycle' = [NoCycle EXCEPT !.after = IF hadErrors THEN "failed"
                                          ELSE IF CycleFailed THEN "unsaved"
                                          ELSE "ok"]
    /\ UNCHANGED <<storeVars, cluster, cfg, configs, durable>>
    /\ UNCHANGED auxVars

\* The poller is between two cycles. Registry events are interleaved with the
\* poller there only: poll() reads the registry once per cycle (ReadRegistry),
\* so an event that arrives during a cycle acts as one that arrives before
\* the cycle (when it precedes the read) or after it.
Waiting == pc \in {"start", "idle"}

Init ==
    /\ claims = EmptyMap
    /\ xrs = EmptyMap
    /\ lastOp = NoOp
    /\ cluster = {}
    /\ cfg \in CentralConfigs
    /\ configs = EmptyMap
    /\ pc = "start"
    /\ hadErrors = FALSE
    /\ nsErrors = FALSE
    /\ centralClaimGVRs = {}
    /\ centralXRGVRs = {}
    /\ nsConfigs = <<>>
    /\ ci = 0
    /\ gi = 0
    /\ durable = NoSnapshot
    /\ listFailed = FALSE
    /\ persistCalled = FALSE
    /\ replaced = {}
    /\ evicted = {}
    /\ cycle = NoCycle
    /\ AuxInit

Next ==
    \/ (Waiting /\ onAdd) \/ (Waiting /\ onUpdate) \/ (Waiting /\ onDelete)
    \/ ClusterChange
    \/ RunInitialPoll \/ Tick
    \/ pollXRs \/ pollClaims
    \/ ReadRegistry
    \/ pollXRsWithKeys \/ pollClaimsScoped
    \/ EnrichClaimCompositions
    \/ Persist
    \/ AwaitTick

Spec == Init /\ [][Next]_vars

-----------------------------------------------------------------------------
(* The program with the S3 backend, over a cluster whose content is fixed *)

PersistentConfigs ==
    { Cfg(<<Widgets>>, <<XWidgets>>, <<>>,                   "s3", TRUE),
      Cfg(<<>>,        <<XWidgets>>, <<"team-a", "team-b">>, "s3", TRUE) }

InitPersist ==
    /\ claims = EmptyMap
    /\ xrs = EmptyMap
    /\ lastOp = NoOp
    /\ cluster \in SUBSET ObjUniverse
    /\ cfg \in PersistentConfigs
    /\ configs = EmptyMap
    /\ pc = "start"
    /\ hadErrors = FALSE
    /\ nsErrors = FALSE
    /\ centralClaimGVRs = {}
    /\ centralXRGVRs = {}
    /\ nsConfigs = <<>>
    /\ ci = 0
    /\ gi = 0
    /\ durable = NoSnapshot
    /\ listFailed = FALSE
    /\ persistCalled = FALSE
    /\ replaced = {}
    /\ evicted = {}
    /\ cycle = NoCycle
    /\ AuxInit

NextPersist ==
    \/ (Waiting /\ onAdd) \/ (Waiting /\ onUpdate) \/ (Waiting /\ onDelete)
    \/ RunInitialPoll \/ Tick
    \/ pollXRs \/ pollClaims
    \/ ReadRegistry
    \/ pollXRsWithKeys \/ pollClaimsScoped
    \/ EnrichClaimCompositions
    \/ Persist
    \/ AwaitTick

SpecPersist == InitPersist /\ [][NextPersist]_vars

-----------------------------------------------------------------------------
(* Run until the context is cancelled *)

\* The signal arrives: run()'s context is cancelled, wherever the poller is.
Cancel ==
    /\ ~ctx.done
    /\ pc # "returned"
    /\ ctx' = [done |-> TRUE,
               at |-> IF pc \in {"start", "idle", "done"} THEN "idle" ELSE "cycle"]
    /\ UNCHANGED <<storeVars, lastOp, cluster, cfg, configs, pollerVars, durable,
                   ghostVars, polled, ready, view, mu, call, restored, lastEv>>

\* A select that never takes the case of ctx.Done().
SelectsDoneNever(c) == FALSE

\* Run: `case <-ctx.Done()` can be taken once the context is cancelled.
SelectsDone(c) == c.done

\* Run: case <-ctx.Done(): return
Return ==
    /\ pc = "idle"
    /\ SelectsDone(ctx)
    /\ pc' = "returned"
    /\ UNCHANGED <<storeVars, lastOp, cluster, cfg, configs, hadErrors, nsErrors,
                   centralClaimGVRs, centralXRGVRs, nsConfigs, ci, gi, durable,
                   ghostVars, polled, ready, view, mu, call, restored, lastEv, ctx>>

\* The steps of Run outside the select: the initial poll, the steps of
\* poll(), its return.
PollStep ==
    \/ RunInitialPoll
    \/ pollXRs \/ pollClaims
    \/ ReadRegistry
    \/ pollXRsWithKeys \/ pollClaimsScoped
    \/ EnrichClaimCompositions
    \/ Persist
    \/ AwaitTick

\* The process as started for this part: central claim and composite GVRs,
\* the S3 backend, and a registry that the informer's initial list has filled
\* with the configs of two ConfigMaps and that does not change afterwards.
RunCfg == Cfg(<<Widgets>>, <<XWidgets>>, <<>>, "s3", TRUE)

RunConfigMaps ==
    { ConfigMap("team-a", <<>>,        <<Widgets>>,  FALSE),
      ConfigMap("team-b", <<Widgets>>, <<>>,         FALSE) }

RunRegistry ==
    [k \in { cm.Namespace \o "/" \o cm.Name : cm \in RunConfigMaps } |->
        LET cm == CHOOSE c \in RunConfigMaps : c.Namespace \o "/" \o c.Name = k
        IN ParseNamespaceConfigMap(cm, RunCfg).cfg]

\* A Run that enters its select loop without polling first.
RunEntryAtSelect == "idle"

\* Run: `p.poll(ctx)` is the first statement after the ticker is made, before
\* the `for { select ... }`.
RunEntry == "start"

InitRun ==
    /\ claims = EmptyMap
    /\ xrs = EmptyMap
    /\ lastOp = NoOp
    /\ cluster = ObjUniverse
    /\ cfg = RunCfg
    /\ configs = RunRegistry
    /\ pc = RunEntry
    /\ hadErrors = FALSE
    /\ nsErrors = FALSE
    /\ centralClaimGVRs = {}
    /\ centralXRGVRs = {}
    /\ nsConfigs = <<>>
    /\ ci = 0
    /\ gi = 0
    /\ durable = NoSnapshot
    /\ listFailed = FALSE
    /\ persistCalled = FALSE
    /\ replaced = {}
    /\ evicted = {}
    /\ cycle = NoCycle
    /\ AuxInit

NextRun ==
    \/ RunInitialPoll \/ Tick
    \/ pollXRs \/ pollClaims
    \/ ReadRegistry
    \/ pollXRsWithKeys \/ pollClaimsScoped
    \/ EnrichClaimCompositions
    \/ Persist
    \/ AwaitTick
    \/ Cancel
    \/ Return

\* The calls poll() makes return (a cancelled context makes them return at
\* once), the ticker keeps firing, and a select with several ready cases
\* picks one at random, so a case that is ready again and again is taken.
FairRun ==
    /\ WF_vars(PollStep)
    /\ WF_vars(Tick)
    /\ SF_vars(Return)

SpecRun == InitRun /\ [][NextRun]_vars /\ FairRun

-----------------------------------------------------------------------------
(* The poller and the informer as two goroutines: the handlers of the
   registry run at any moment, also between two steps of a cycle *)

LiveCfg == Cfg(<<Widgets>>, <<XWidgets>>, <<>>, "memory", TRUE)

InitLive ==
    /\ claims = EmptyMap
    /\ xrs = EmptyMap
    /\ lastOp = NoOp
    /\ cluster = ObjUniverse
    /\ cfg = LiveCfg
    /\ configs = EmptyMap
    /\ pc = "start"
    /\ hadErrors = FALSE
    /\ nsErrors = FALSE
    /\ centralClaimGVRs = {}
    /\ centralXRGVRs = {}
    /\ nsConfigs = <<>>
    /\ ci = 0
    /\ gi = 0
    /\ durable = NoSnapshot
    /\ listFailed = FALSE
    /\ persistCalled = FALSE
    /\ replaced = {}
    /\ evicted = {}
    /\ cycle = NoCycle
    /\ AuxInit

NextLive ==
    \/ onAdd \/ onUpdate \/ onDelete
    \/ RunInitialPoll \/ Tick
    \/ pollXRs \/ pollClaims
    \/ ReadRegistry
    \/ pollXRsWithKeys \/ pollClaimsScoped
    \/ EnrichClaimCompositions
    \/ Persist
    \/ AwaitTick

SpecLive == InitLive /\ [][NextLive]_vars

-----------------------------------------------------------------------------
(* The process as run() assembles it: poller, HTTP readers, readiness *)

\* run(): the goroutine that sleeps 100 ms and then calls srv.SetReady();
\* nothing orders the end of the sleep with the steps of the poller.
SetReady ==
    /\ ~ready
    /\ ready' = TRUE
    /\ UNCHANGED <<storeVars, lastOp, cluster, cfg, configs, pollerVars, durable,
                   ghostVars, polled, view, mu, call, restored, lastEv, ctx>>

\* The writer inside its critical section has more to do: the delete loop of
\* a replace would still remove entries, or the loop of the enrichment would
\* still change claims.
Torn ==
    /\ mu = "W"
    /\ \/ call.op = "ReplaceClaims" /\ StaleKeys(claims, call.gvr, call.items) # {}
       \/ call.op = "ReplaceXRs" /\ StaleKeys(xrs, call.gvr, call.items) # {}
       \/ call.op = "Enrich" /\ Enrich(claims, xrs) # claims

\* A snapshot that hands out the internal storage.
SnapshotAliasesInternal == TRUE

\* SnapshotClaims / SnapshotXRs: `out := make(...)` and `append(out, c)` of
\* struct values (strings, a bool and a time.Time, no pointers); the result
\* shares no memory with the maps.
SnapshotAliases == FALSE

\* What a reader keeps of a snapshot: the records, which map they are of,
\* whether poll() had returned at least once and whether a writer was half
\* way when the snapshot was taken, whether the records share memory with the
\* store, and whether the reader has written to them since.
View(of, records) ==
    [taken |-> TRUE, of |-> of, records |-> records, polled |-> polled,
     torn |-> Torn, alias |-> SnapshotAliases, mutated |-> FALSE]

\* ClaimCollector.Collect, serving a /metrics scrape: one SnapshotClaims().
CollectClaims ==
    /\ view' = View("claims", SnapshotClaims)
    /\ UNCHANGED <<storeVars, lastOp, cluster, cfg, configs, pollerVars, durable,
                   ghostVars, polled, ready, mu, call, restored, lastEv, ctx>>

\* XRCollector.Collect, serving a /metrics scrape: one SnapshotXRs().
CollectXRs ==
    /\ view' = View("xrs", SnapshotXRs)
    /\ UNCHANGED <<storeVars, lastOp, cluster, cfg, configs, pollerVars, durable,
                   ghostVars, polled, ready, mu, call, restored, lastEv, ctx>>

\* The central configuration of the served process: no namespace filter, no
\* namespace config provider, memory backend (the store starts empty).
ServerCfg == Cfg(<<Widgets>>, <<XWidgets>>, <<>>, "memory", FALSE)

InitServer ==
    /\ claims = EmptyMap
    /\ xrs = EmptyMap
    /\ lastOp = NoOp
    /\ cluster \in SUBSET ObjUniverse
    /\ cfg = ServerCfg
    /\ configs = EmptyMap
    /\ pc = "start"
    /\ hadErrors = FALSE
    /\ nsErrors = FALSE
    /\ centralClaimGVRs = {}
    /\ centralXRGVRs = {}
    /\ nsConfigs = <<>>
    /\ ci = 0
    /\ gi = 0
    /\ durable = NoSnapshot
    /\ listFailed = FALSE
    /\ persistCalled = FALSE
    /\ replaced = {}
    /\ evicted = {}
    /\ cycle = NoCycle
    /\ AuxInit

NextServer ==
    \/ RunInitialPoll \/ Tick
    \/ pollXRs \/ pollClaims
    \/ ReadRegistry
    \/ EnrichClaimCompositions
    \/ Persist
    \/ AwaitTick
    \/ SetReady
    \/ CollectClaims \/ CollectXRs

SpecServer == InitServer /\ [][NextServer]_vars

-----------------------------------------------------------------------------
(* The store under concurrent callers: s.mu, writers and readers *)

\* The item lists the writers hand to ReplaceClaims: one object, two objects
\* of one key with different payloads, an object of another key, none.
ClaimInputs ==
    LET a == Obj(Widgets,  "team-a", "db", "",      "xr-1")
        g == Obj(Gadgets,  "team-a", "db", "own",   "xr-1")
        x == Obj(XWidgets, "",       "xr-1", "comp-a", "")
    IN { <<>>, <<a>>, <<a, g>>, <<x>> }

\* The item lists the writers hand to ReplaceXRs.
XRInputs ==
    { <<>>, <<Obj(XWidgets, "", "xr-1", "comp-a", "")>> }

\* s.mu.Lock() returns when no writer holds the mutex; readers hold it only
\* for the length of one snapshot, which is one step here.
CanLock(m) == m = ""

\* A read lock that is granted while a writer is inside.
CanRLockAlways(m) == TRUE

\* s.mu.RLock() returns when no writer holds the mutex.
CanRLock(m) == m = ""

\* What a snapshot the reader still holds shows once the maps are cl and xr:
\* unchanged when it is a copy, the maps' content when it shares their memory.
Shared(v, cl, xr) ==
    IF v.taken /\ v.alias
    THEN [v EXCEPT !.records = IF v.of = "claims" THEN RecordsOf(cl)
                                ELSE IF v.of = "xrs" THEN RecordsOf(xr)
                                ELSE @]
    ELSE v

\* The call repeats the one made just before it.
Again(op, gvr, items) ==
    /\ call.op = op
    /\ call.gvr = gvr
    /\ call.items = items

AccessFrame ==
    UNCHANGED <<lastOp, cluster, cfg, configs, pollerVars, durable, ghostVars,
                polled, ready, restored, lastEv, ctx>>

\* ReplaceClaims, from s.mu.Lock() to the end of the upsert loop.
LockReplaceClaims ==
    /\ CanLock(mu)
    /\ \E gvr \in StoreGVRs, raw \in ClaimInputs :
          LET items == ConvertClaims(raw, gvr, KeysFromConfig(cfg))
          IN /\ call' = [op |-> "ReplaceClaims", gvr |-> GVRString(gvr),
                         items |-> items, pre |-> claims,
                         again |-> Again("ReplaceClaims", GVRString(gvr), items),
                         after |-> call.op]
             /\ claims' = Upsert(claims, items)
    /\ mu' = "W"
    /\ view' = Shared(view, claims', xrs)
    /\ UNCHANGED xrs
    /\ AccessFrame

\* ReplaceClaims, the delete loop and the deferred s.mu.Unlock().
UnlockReplaceClaims ==
    /\ mu = "W"
    /\ call.op = "ReplaceClaims"
    /\ claims' = RemoveStale(claims, call.gvr, call.items)
    /\ mu' = ""
    /\ view' = Shared(view, claims', xrs)
    /\ UNCHANGED <<xrs, call>>
    /\ AccessFrame

\* ReplaceXRs, from s.mu.Lock() to the end of the upsert loop.
LockReplaceXRs ==
    /\ CanLock(mu)
    /\ \E raw \in XRInputs :
          LET items == ConvertXRs(raw, XWidgets, KeysFromConfig(cfg))
          IN /\ call' = [op |-> "ReplaceXRs", gvr |-> GVRString(XWidgets),
                         items |-> items, pre |-> xrs,
                         again |-> Again("ReplaceXRs", GVRString(XWidgets), items),
                         after |-> call.op]
             /\ xrs' = Upsert(xrs, items)
    /\ mu' = "W"
    /\ view' = Shared(view, claims, xrs')
    /\ UNCHANGED claims
    /\ AccessFrame

\* ReplaceXRs, the delete loop and the deferred s.mu.Unlock().
UnlockReplaceXRs ==
    /\ mu = "W"
    /\ call.op = "ReplaceXRs"
    /\ xrs' = RemoveStale(xrs, call.gvr, call.items)
    /\ mu' = ""
    /\ view' = Shared(view, claims, xrs')
    /\ UNCHANGED <<claims, call>>
    /\ AccessFrame

\* EnrichClaimCompositions, from s.mu.Lock() to some point of its loop over
\* s.claims: the claims of the keys in done have been visited.
LockEnrich ==
    /\ CanLock(mu)
    /\ \E done \in SUBSET DOMAIN claims :
          claims' = [k \in DOMAIN claims |->
                        IF k \in done THEN Enrich(claims, xrs)[k] ELSE claims[k]]
    /\ call' = [op |-> "Enrich", gvr |-> "", items |-> <<>>, pre |-> claims,
                again |-> FALSE, after |-> call.op]
    /\ mu' = "W"
    /\ view' = Shared(view, claims', xrs)
    /\ UNCHANGED xrs
    /\ AccessFrame

\* EnrichClaimCompositions, the rest of the loop and the deferred
\* s.mu.Unlock().
UnlockEnrich ==
    /\ mu = "W"
    /\ call.op = "Enrich"
    /\ claims' = Enrich(call.pre, xrs)
    /\ mu' = ""
    /\ view' = Shared(view, claims', xrs)
    /\ UNCHANGED <<xrs, call>>
    /\ AccessFrame

\* A reader's SnapshotClaims().
ReadClaims ==
    /\ CanRLock(mu)
    /\ view' = View("claims", SnapshotClaims)
    /\ UNCHANGED <<storeVars, mu, call>>
    /\ AccessFrame

\* A reader's SnapshotXRs().
ReadXRs ==
    /\ CanRLock(mu)
    /\ view' = View("xrs", SnapshotXRs)
    /\ UNCHANGED <<storeVars, mu, call>>
    /\ AccessFrame

\* A reader's ClaimCount(): len(s.claims).
ReadClaimCount ==
    /\ CanRLock(mu)
    /\ view' = View("count", {Cardinality(DOMAIN claims)})
    /\ UNCHANGED <<storeVars, mu, call>>
    /\ AccessFrame

\* Map m after a write through a snapshot that shares its memory: the entry
\* holding record r holds record w.
WriteThrough(m, r, w) == [k \in DOMAIN m |-> IF m[k] = r THEN w ELSE m[k]]

\* The caller writes to the slice it was given (snap[0].Name = "mutated"),
\* holding no lock.
MutateView ==
    /\ view.taken
    /\ view.of \in {"claims", "xrs"}
    /\ ~view.mutated
    /\ \E r \in view.records :
          LET w == [r EXCEPT !.Name = "mutated"]
          IN /\ view' = [view EXCEPT !.records = (@ \ {r}) \cup {w},
                                     !.mutated = TRUE]
             /\ claims' = IF view.alias /\ view.of = "claims"
                           THEN WriteThrough(claims, r, w) ELSE claims
             /\ xrs' = IF view.alias /\ view.of = "xrs"
                        THEN WriteThrough(xrs, r, w) ELSE xrs
    /\ UNCHANGED <<mu, call>>
    /\ AccessFrame

NextAccess ==
    \/ LockReplaceClaims \/ UnlockReplaceClaims
    \/ LockReplaceXRs \/ UnlockReplaceXRs
    \/ LockEnrich \/ UnlockEnrich
    \/ ReadClaims \/ ReadXRs \/ ReadClaimCount
    \/ MutateView

SpecAccess == InitStore /\ [][NextAccess]_vars

-----------------------------------------------------------------------------
(* The registry alone: the informer delivers events in any order *)

\* The handlers run one at a time, on the informer's delivery goroutine.
\* lastEv keeps, per key, the event processed last: its kind, its object and
\* the kind of the event processed before it ("none" for the first).
Event(kind, cm) ==
    LET key == cm.Namespace \o "/" \o cm.Name
    IN [k \in (DOMAIN lastEv) \cup {key} |->
           IF k = key
           THEN [kind |-> kind, cm |-> cm,
                 before |-> IF key \in DOMAIN lastEv THEN lastEv[key].kind ELSE "none"]
           ELSE lastEv[k]]

DeliverAdd == \E cm \in ConfigMaps : onAddOf(cm) /\ lastEv' = Event("add", cm)

DeliverUpdate == \E cm \in ConfigMaps : onUpdateOf(cm) /\ lastEv' = Event("update", cm)

DeliverDelete == \E cm \in ConfigMaps : onDeleteOf(cm) /\ lastEv' = Event("delete", cm)

InitRegistry ==
    /\ claims = EmptyMap
    /\ xrs = EmptyMap
    /\ lastOp = NoOp
    /\ cluster = {}
    /\ cfg = Cfg(<<Widgets>>, <<XWidgets>>, <<>>, "memory", TRUE)
    /\ configs = EmptyMap
    /\ pc = "idle"
    /\ hadErrors = FALSE
    /\ nsErrors = FALSE
    /\ centralClaimGVRs = {}
    /\ centralXRGVRs = {}
    /\ nsConfigs = <<>>
    /\ ci = 0
    /\ gi = 0
    /\ durable = NoSnapshot
    /\ listFailed = FALSE
    /\ persistCalled = FALSE
    /\ replaced = {}
    /\ evicted = {}
    /\ cycle = NoCycle
    /\ AuxInit

\* The registry that the events processed last for each key call for: the
\* parse result of every key whose last event was an add or update that parsed.
Expected(ev) ==
    LET keys == { k \in DOMAIN ev :
                     /\ ev[k].kind \in {"add", "update"}
                     /\ ParseNamespaceConfigMap(ev[k].cm, cfg).ok }
    IN [k \in keys |-> ParseNamespaceConfigMap(ev[k].cm, cfg).cfg]

\* A snapshot that hands out w.configs itself.
NamespaceConfigsAliasesMap == TRUE

\* NamespaceConfigs: `out = append(out, *nsCfg)` copies every entry into a
\* new slice, under w.mu.RLock(); the handlers replace or delete map entries
\* and never write to a NamespaceConfig that is already in the map.
NamespaceConfigsAliases == FALSE

\* A caller's NamespaceConfigs(), between two events: view keeps the entries
\* returned and, beside them, the registry the events so far call for.
ReadNamespaceConfigs ==
    /\ \E snap \in NamespaceConfigs :
          view' = [taken |-> TRUE, of |-> "registry", records |-> SeqToSet(snap),
                   polled |-> polled, torn |-> FALSE,
                   alias |-> NamespaceConfigsAliases, mutated |-> FALSE,
                   expect |-> RecordsOf(Expected(lastEv))]
    /\ UNCHANGED <<storeVars, lastOp, cluster, cfg, configs, pollerVars, durable,
                   ghostVars, polled, ready, mu, call, restored, lastEv, ctx>>

\* What the snapshot a caller holds shows now.
Held == IF view.alias THEN RecordsOf(configs) ELSE view.records

NextRegistry ==
    \/ DeliverAdd \/ DeliverUpdate \/ DeliverDelete
    \/ ReadNamespaceConfigs

SpecRegistry == InitRegistry /\ [][NextRegistry]_vars

-----------------------------------------------------------------------------
(* The keys a NamespaceConfig converts with *)

\* Central configurations with and without annotation keys, with the default
\* and with another composition label key.
KeyCentralConfigs ==
    { [Cfg(<<Widgets>>, <<XWidgets>>, <<>>, "memory", TRUE)
          EXCEPT !.CreatorAnnotationKey = c,
                 !.TeamAnnotationKey = t,
                 !.CompositionLabelKey = l] :
        c \in {"", "central/creator"},
        t \in {"", "central/team"},
        l \in {CompositionLabelKey, "central/composition"} }

\* The members a ConfigMap may carry beside the GVR lists, each missing,
\* empty or set.
DataKeys == {"CREATOR_ANNOTATION_KEY", "TEAM_ANNOTATION_KEY", "COMPOSITION_LABEL_KEY"}
DataMaps == UNION { [S -> {"", "ns/key"}] : S \in SUBSET DataKeys }

KeyConfigMaps ==
    { ConfigMapWithData("team-a", <<Widgets>>, <<>>, FALSE, d) : d \in DataMaps }

\* ParseNamespaceConfigMap(cm, cfg) as upsert calls it, then
\* KeysFromNamespaceConfig(&nsCfg, p.cfg) as pollNamespaceConfigsList calls it.
ParseAndBuildKeys ==
    /\ \E cm \in KeyConfigMaps :
          LET parsed == ParseNamespaceConfigMap(cm, cfg)
          IN /\ parsed.ok
             /\ call' = [op |-> "KeysFromNamespaceConfig", cm |-> cm,
                         nsCfg |-> parsed.cfg,
                         keys |-> KeysFromNamespaceConfig(parsed.cfg, cfg)]
    /\ UNCHANGED <<storeVars, lastOp, cluster, cfg, configs, pollerVars, durable,
                   ghostVars, polled, ready, view, mu, restored, lastEv, ctx>>

InitKeys ==
    /\ claims = EmptyMap
    /\ xrs = EmptyMap
    /\ lastOp = NoOp
    /\ cluster = {}
    /\ cfg \in KeyCentralConfigs
    /\ configs = EmptyMap
    /\ pc = "idle"
    /\ hadErrors = FALSE
    /\ nsErrors = FALSE
    /\ centralClaimGVRs = {}
    /\ centralXRGVRs = {}
    /\ nsConfigs = <<>>
    /\ ci = 0
    /\ gi = 0
    /\ durable = NoSnapshot
    /\ listFailed = FALSE
    /\ persistCalled = FALSE
    /\ replaced = {}
    /\ evicted = {}
    /\ cycle = NoCycle
    /\ AuxInit

NextKeys == ParseAndBuildKeys

SpecKeys == InitKeys /\ [][NextKeys]_vars

-----------------------------------------------------------------------------
(* S3Store: Persist, a new process, Restore *)

RestoreFrame ==
    UNCHANGED <<lastOp, cluster, cfg, configs, pollerVars, ghostVars, polled,
                ready, lastEv, ctx>>

\* S3Store.Persist called on the store as it is; view keeps what the two
\* snapshots of the last successful Persist returned.
ApiPersist ==
    /\ CanRLock(mu)
    /\ \E err \in BOOLEAN :
          IF err THEN UNCHANGED <<durable, view>>
          ELSE /\ durable' = Snapshot
               /\ view' = View("persist", <<SnapshotClaims, SnapshotXRs>>)
    /\ UNCHANGED <<storeVars, mu, call, restored>>
    /\ RestoreFrame

\* The process ends and a new one starts with store.New(); the object in the
\* bucket stays.
Restart ==
    /\ mu = ""
    /\ claims' = EmptyMap
    /\ xrs' = EmptyMap
    /\ call' = NoCall
    /\ restored' = NoRestore
    /\ UNCHANGED <<durable, view, mu>>
    /\ RestoreFrame

\* What the read of the object gives: with no object the NoSuchKey error of
\* GetObject; with an object its body, a body that json.Unmarshal rejects, a
\* body longer than maxSnapshotSize, or an error of io.ReadAll; in both cases
\* perhaps another error of GetObject.
GetOutcomes ==
    IF durable.present
    THEN {"body", "undecodable", "oversize", "unreadable", "error"}
    ELSE {"NoSuchKey", "error"}

\* A Restore that reports the missing object as an error too.
RestoreFailsOnAbsent(got) == got # "body"

\* A Restore that returns only the errors of GetObject.
RestoreFailsOnlyBackend(got) == got = "error"

\* Restore returns a non-nil error: GetObject failed with something else than
\* NoSuchKey, io.ReadAll failed, the body is too long, json.Unmarshal failed.
RestoreFails(got) == got \in {"error", "unreadable", "oversize", "undecodable"}

\* The Snapshot value after json.Unmarshal: all of the body; of a body it
\* rejects, what was decoded before the error (here the claims); nothing when
\* no body was read.
Decoded(got) ==
    IF got = "body"
    THEN [claims |-> { UnmarshalClaim(j) : j \in durable.claims },
          xrs |-> { UnmarshalXR(j) : j \in durable.xrs }]
    ELSE IF got = "undecodable"
    THEN [claims |-> { UnmarshalClaim(j) : j \in durable.claims }, xrs |-> {}]
    ELSE [claims |-> {}, xrs |-> {}]

\* `for gvr, items := range claimsByGVR { s.mem.ReplaceClaims(gvr, items) }`
\* with the groups visited in the order of seq order.
RECURSIVE ReplayGroups(_, _, _)
ReplayGroups(m, order, recs) ==
    IF order = <<>> THEN m
    ELSE ReplayGroups(Replace(m, Head(order),
                              SetToSeq({ r \in recs : r.GVR = Head(order) })),
                      Tail(order), recs)

\* S3Store.Restore, called once by the process. The groups of a Go map are
\* visited in any order.
ApiRestore ==
    /\ CanLock(mu)
    /\ ~restored.called
    /\ \E got \in GetOutcomes :
          /\ restored' = [called |-> TRUE, got |-> got, err |-> RestoreFails(got),
                          fresh |-> claims = EmptyMap /\ xrs = EmptyMap]
          /\ IF got = "NoSuchKey" \/ RestoreFails(got)
             THEN UNCHANGED storeVars
             ELSE LET snap == Decoded(got)
                  IN \E co \in Orderings({ r.GVR : r \in snap.claims }),
                        xo \in Orderings({ r.GVR : r \in snap.xrs }) :
                        /\ claims' = ReplayGroups(claims, co, snap.claims)
                        /\ xrs' = ReplayGroups(xrs, xo, snap.xrs)
    /\ call' = [op |-> "Restore", gvr |-> "", items |-> <<>>,
                pre |-> <<claims, xrs>>, again |-> FALSE, after |-> call.op]
    /\ UNCHANGED <<durable, view, mu>>
    /\ RestoreFrame

NextRestore ==
    \/ LockReplaceClaims \/ UnlockReplaceClaims
    \/ LockReplaceXRs \/ UnlockReplaceXRs
    \/ ApiPersist
    \/ Restart
    \/ ApiRestore

SpecRestore == InitStore /\ [][NextRestore]_vars

-----------------------------------------------------------------------------
(* run() with the S3 backend: Restore, then the poller *)

StartupCfg == Cfg(<<Widgets>>, <<XWidgets>>, <<>>, "s3", FALSE)

\* What an earlier process, configured with the claim GVRs Widgets and
\* Gadgets, stored and persisted: a claim of a GVR that the configuration no
\* longer has, a claim and an XR whose objects are gone from the cluster.
PriorClaims ==
    { UnstructuredToClaimWithKeys(Obj(Gadgets, "team-a", "old", "", ""), Gadgets,
                                  KeysFromConfig(StartupCfg)),
      UnstructuredToClaimWithKeys(Obj(Widgets, "team-a", "gone", "", ""), Widgets,
                                  KeysFromConfig(StartupCfg)) }

PriorXRs ==
    { UnstructuredToXRWithKeys(Obj(XWidgets, "", "xr-0", "comp-0", ""), XWidgets,
                               KeysFromConfig(StartupCfg)) }

\* The object in the bucket when the process starts: none, or the document
\* of the earlier process.
StartupDocuments ==
    { NoSnapshot,
      [present |-> TRUE,
       claims |-> { MarshalClaim(c) : c \in PriorClaims },
       xrs |-> { MarshalXR(x) : x \in PriorXRs }] }

InitStartup ==
    /\ claims = EmptyMap
    /\ xrs = EmptyMap
    /\ lastOp = NoOp
    /\ cluster = ObjUniverse
    /\ cfg = StartupCfg
    /\ configs = EmptyMap
    /\ pc = "start"
    /\ hadErrors = FALSE
    /\ nsErrors = FALSE
    /\ centralClaimGVRs = {}
    /\ centralXRGVRs = {}
    /\ nsConfigs = <<>>
    /\ ci = 0
    /\ gi = 0
    /\ durable \in StartupDocuments
    /\ listFailed = FALSE
    /\ persistCalled = FALSE
    /\ replaced = {}
    /\ evicted = {}
    /\ cycle = NoCycle
    /\ AuxInit

\* A run() that starts the poller without waiting for Restore.
RestoreNotAwaited == TRUE

\* run(): `s3s.Restore(ctx)` is called in the goroutine of run() and has
\* returned when `go poller.Run(ctx)` is reached.
RestoreAwaited == restored.called

NextStartup ==
    \/ ApiRestore
    \/ (RestoreAwaited /\ RunInitialPoll)
    \/ Tick
    \/ pollXRs \/ pollClaims
    \/ ReadRegistry
    \/ EnrichClaimCompositions
    \/ Persist
    \/ AwaitTick

SpecStartup == InitStartup /\ [][NextStartup]_vars

-----------------------------------------------------------------------------
(* Properties of the store API (SpecStore) *)

KeyOf(r) == objectKey(r.Namespace, r.Name)

\* The entries of map m that a snapshot returns for identity key k.
EntriesFor(m, k) == { e \in DOMAIN m : KeyOf(m[e]) = k }

\* Map m holds exactly one record per key of keys, each with GVR gvr, and no
\* record with GVR gvr whose key is outside keys.
ExactPartition(m, gvr, keys) ==
    /\ \A k \in keys :
          /\ Cardinality(EntriesFor(m, k)) = 1
          /\ \A e \in EntriesFor(m, k) : m[e].GVR = gvr
    /\ \A e \in DOMAIN m : m[e].GVR = gvr => KeyOf(m[e]) \in keys

\* C1: immediately after ReplaceClaims/ReplaceXRs(sourceId, items) the
\* snapshot holds exactly one record per distinct identity key of items, each
\* with GVR = sourceId, and no record with GVR = sourceId whose key is absent
\* from items.
C1_ReplaceExact ==
    /\ lastOp.op = "ReplaceClaims" => ExactPartition(claims, lastOp.gvr, lastOp.keys)
    /\ lastOp.op = "ReplaceXRs" => ExactPartition(xrs, lastOp.gvr, lastOp.keys)

\* A replace whose items repeat a key and that removed a stale record of its
\* GVR.
C1_Witness ==
    /\ lastOp.op = "ReplaceClaims"
    /\ lastOp.n > Cardinality(lastOp.keys)
    /\ lastOp.removed # {}

OtherGVRs(m, gvr) == { r \in RecordsOf(m) : r.GVR # gvr }

\* C2: ReplaceClaims(g, items) and ReplaceXRs(g, items) leave the set of
\* records of every GVR other than g as it was before the call.
C2_OtherGVRsUntouched ==
    [][ /\ lastOp'.op = "ReplaceClaims" =>
              OtherGVRs(claims', lastOp'.gvr) = OtherGVRs(claims, lastOp'.gvr)
        /\ lastOp'.op = "ReplaceXRs" =>
              OtherGVRs(xrs', lastOp'.gvr) = OtherGVRs(xrs, lastOp'.gvr) ]_vars

\* The claim's reference is empty, or the lookup s.xrs[claim.XRRef] fails.
Unresolved(c) == c.XRRef = "" \/ c.XRRef \notin DOMAIN xrs
Resolved(c) == c.XRRef # "" /\ c.XRRef \in DOMAIN xrs

C5_ResolvedInherits ==
    lastOp.op = "Enrich" =>
        \A k \in DOMAIN claims :
            Resolved(claims[k]) =>
                claims[k].Composition = xrs[claims[k].XRRef].Composition

\* After an enrichment: a claim whose reference resolves and that has the
\* non-empty composition of its composite, beside a claim without reference.
C5_Witness ==
    /\ lastOp.op = "Enrich"
    /\ \E k \in DOMAIN claims :
          /\ Resolved(claims[k])
          /\ claims[k].Composition # ""
          /\ claims[k].Composition = xrs[claims[k].XRRef].Composition
    /\ \E k \in DOMAIN claims : claims[k].XRRef = ""

-----------------------------------------------------------------------------
(* Properties of the poll cycle (Spec, SpecPersist) *)

\* The GVR strings declared by the namespace configs of the cycle.
NsDeclaredGVRs ==
    UNION { { GVRString(nsConfigs[i].ClaimGVRs[j]) : j \in 1..Len(nsConfigs[i].ClaimGVRs) }
            \cup { GVRString(nsConfigs[i].XRGVRs[j]) : j \in 1..Len(nsConfigs[i].XRGVRs) }
            : i \in 1..Len(nsConfigs) }

\* C3: after a cycle in which every list succeeded, the store holds every
\* claim that exists in the owning namespace of a namespace config, for
\* every claim GVR the config declares and that is not polled centrally.
C3_AllNamespaceClaimsStored ==
    (pc = "done" /\ ~listFailed) =>
        \A i \in 1..Len(nsConfigs) :
            \A j \in 1..Len(nsConfigs[i].ClaimGVRs) :
                LET gvr == nsConfigs[i].ClaimGVRs[j]
                IN GVRString(gvr) \notin centralClaimGVRs =>
                      \A o \in cluster :
                          (o.gvr = gvr /\ o.ns = nsConfigs[i].Namespace) =>
                              \E r \in SnapshotClaims :
                                  /\ r.GVR = GVRString(gvr)
                                  /\ r.Namespace = o.ns
                                  /\ r.Name = o.name

\* C6: Persist is not invoked in a cycle in which a list call failed.
C6_NoPersistAfterListFailure == persistCalled => ~listFailed

\* A finished cycle of the S3 backend in which a list failed and Persist was
\* not invoked, the durable snapshot of an earlier cycle being kept although
\* the store differs from it.
C6_Witness ==
    /\ pc = "done"
    /\ cfg.StoreBackend = "s3"
    /\ listFailed
    /\ ~persistCalled
    /\ durable.present
    /\ durable # Snapshot

\* C7: after a cycle, every stored record of a GVR that is both polled
\* centrally and declared by a namespace config is tagged central.
C7_SharedGVRsCentralOnly ==
    pc = "done" =>
        \A r \in SnapshotClaims \cup SnapshotXRs :
            r.GVR \in (centralClaimGVRs \cup centralXRGVRs) \cap NsDeclaredGVRs =>
                r.Source = "central"

\* C8: the records that pollClaimsScoped hands to the store for a namespace
\* config are all of the config's owning namespace.
C8_ScopedToOwnNamespace ==
    lastOp.caller = "pollClaimsScoped" => lastOp.nss \subseteq {lastOp.ns}

\* pollClaimsScoped stored the claims of the owning namespace while the
\* cluster holds a claim of the same GVR in another namespace.
C8_Witness ==
    /\ lastOp.caller = "pollClaimsScoped"
    /\ lastOp.nss = {lastOp.ns}
    /\ \E o \in cluster : GVRString(o.gvr) = lastOp.gvr /\ o.ns \notin {"", lastOp.ns}

\* C9: every poll of a composite GVR, central or for a namespace config,
\* lists cluster-wide.
C9_XRsClusterWide ==
    lastOp.op = "ReplaceXRs" => lastOp.scopes = {""}

\* Object o is what the record r of the given role was converted from.
RecordOf(r, o) == r.GVR = GVRString(o.gvr) /\ r.Namespace = o.ns /\ r.Name = o.name

\* C10: after a cycle, every stored record of a GVR whose partition the
\* cycle replaced is a record of an object that still exists: a record of an
\* earlier cycle whose object is no longer listed is gone.
C10_StaleEvicted ==
    pc = "done" =>
        /\ \A r \in SnapshotClaims :
              <<"claim", r.GVR>> \in replaced => \E o \in cluster : RecordOf(r, o)
        /\ \A r \in SnapshotXRs :
              <<"xr", r.GVR>> \in replaced => \E o \in cluster : RecordOf(r, o)

Stored(role, gvr, k) ==
    IF role = "claim"
    THEN \E r \in SnapshotClaims : r.GVR = gvr /\ KeyOf(r) = k
    ELSE \E r \in SnapshotXRs : r.GVR = gvr /\ KeyOf(r) = k

InCluster(gvr, k) ==
    \E o \in cluster : GVRString(o.gvr) = gvr /\ objectKey(o.ns, o.name) = k

PolledCentrally(role, gvr) ==
    IF role = "claim" THEN gvr \in centralClaimGVRs ELSE gvr \in centralXRGVRs

\* A finished cycle that removed, for a central GVR and for a GVR of a
\* namespace config, a record of an earlier cycle whose object is gone.
C10_Witness ==
    /\ pc = "done"
    /\ \E e \in evicted :
          /\ PolledCentrally(e[1], e[2])
          /\ ~Stored(e[1], e[2], e[3])
          /\ ~InCluster(e[2], e[3])
    /\ \E e \in evicted :
          /\ ~PolledCentrally(e[1], e[2])
          /\ ~Stored(e[1], e[2], e[3])
          /\ ~InCluster(e[2], e[3])

\* The claim GVR strings, and the composite GVR strings, declared by the
\* namespace configs of the cycle.
NsClaimGVRs ==
    UNION { { GVRString(nsConfigs[i].ClaimGVRs[j]) : j \in 1..Len(nsConfigs[i].ClaimGVRs) }
            : i \in 1..Len(nsConfigs) }
NsXRGVRs ==
    UNION { { GVRString(nsConfigs[i].XRGVRs[j]) : j \in 1..Len(nsConfigs[i].XRGVRs) }
            : i \in 1..Len(nsConfigs) }

\* C11: after a cycle in which every list succeeded, the store holds no
\* record of a GVR that is declared neither centrally nor by a namespace
\* config of the registry as the cycle read it.
C11_UndeclaredGVRsCleanedUp ==
    (pc = "done" /\ ~listFailed) =>
        /\ \A r \in SnapshotClaims : r.GVR \in centralClaimGVRs \cup NsClaimGVRs
        /\ \A r \in SnapshotXRs : r.GVR \in centralXRGVRs \cup NsXRGVRs

-----------------------------------------------------------------------------
(* Properties of the served process (SpecServer) *)

\* C12: a snapshot that a reader takes before any polling cycle has completed
\* equals the initial contents of the store, which are empty: it never shows
\* the records of a cycle in progress.
C12_ReadersSeeCompletedCycles ==
    (view.taken /\ ~view.polled) => view.records = {}

\* C13: the ready flag is not set before the initial cycle of the poller has
\* finished.
C13_ReadyAfterFirstCycle == ready => polled

-----------------------------------------------------------------------------
(* Properties of the store under concurrent callers (SpecAccess) *)

C15_NoTornRead == view.taken => ~view.torn

\* A replace is between its loops with stale entries still in the map, and
\* the snapshot a reader holds is the map as it was before the call.
C15_Witness ==
    /\ Torn
    /\ call.op = "ReplaceClaims"
    /\ view.taken
    /\ view.of = "claims"
    /\ ~view.mutated
    /\ view.records = RecordsOf(call.pre)
    /\ view.records # {}

\* C16: when a replace has returned that had the gvr and the items of the
\* call made just before it, the map is as it was when the replace began.
C16_ReplaceIdempotent ==
    (mu = "" /\ call.op \in {"ReplaceClaims", "ReplaceXRs"} /\ call.again) =>
        (IF call.op = "ReplaceClaims" THEN claims ELSE xrs) = call.pre

\* The repeated call had two items of one key and left a record.
C16_Witness ==
    /\ mu = ""
    /\ call.op = "ReplaceClaims"
    /\ call.again
    /\ Len(call.items) = 2
    /\ claims # EmptyMap

-----------------------------------------------------------------------------
(* Properties of persistence (SpecRestore) *)

\* The last call was a Restore into a new, empty store that read the body
\* Persist had written.
RestoredFresh ==
    /\ call.op = "Restore"
    /\ restored.fresh
    /\ restored.got = "body"

\* After Restore into a new store, both snapshots are the ones the last
\* Persist wrote.
RoundTrip ==
    RestoredFresh => (view.taken /\ <<SnapshotClaims, SnapshotXRs>> = view.records)

\* C17: after Persist and Restore into a new store both snapshots are the
\* persisted ones, and the first ReplaceClaims(g, items) on the restored store
\* leaves one record per key of items in the partition of g, evicts the other
\* restored records of g, and leaves the restored records of every other GVR
\* in place.
C17_RoundTripKeepsPartitions ==
    /\ RoundTrip
    /\ (/\ mu = ""
        /\ call.op = "ReplaceClaims"
        /\ call.after = "Restore"
        /\ restored.fresh
        /\ restored.got = "body")
       => /\ ExactPartition(claims, call.gvr, ItemKeys(call.items))
          /\ OtherGVRs(claims, call.gvr) = OtherGVRs(call.pre, call.gvr)

\* C18: a Restore that finds no object returns nil and leaves both maps as
\* they were, so a new store stays empty.
C18_AbsentIsNotAnError ==
    (call.op = "Restore" /\ restored.got = "NoSuchKey") =>
        /\ ~restored.err
        /\ <<claims, xrs>> = call.pre

\* A new process called Restore and there was no object.
C18_Witness ==
    /\ call.op = "Restore"
    /\ restored.got = "NoSuchKey"
    /\ restored.fresh
    /\ ~durable.present
    /\ claims = EmptyMap
    /\ xrs = EmptyMap

\* C19: a Restore whose read failed otherwise (GetObject error, read error,
\* body too long, body not decodable) returns the error and leaves both maps
\* as they were.
C19_ReadFailureSurfaced ==
    (call.op = "Restore" /\ restored.got \notin {"NoSuchKey", "body"}) =>
        /\ restored.err
        /\ <<claims, xrs>> = call.pre

\* Restore was called on a store that held a claim other than the persisted
\* ones, and the body was not decodable.
C19_Witness ==
    /\ call.op = "Restore"
    /\ restored.got = "undecodable"
    /\ durable.claims # {}
    /\ claims # EmptyMap
    /\ { MarshalClaim(c) : c \in SnapshotClaims } # durable.claims

-----------------------------------------------------------------------------
(* Properties of the registry (SpecRegistry) *)

RegistryKeys == { cm.Namespace \o "/" \o cm.Name : cm \in ConfigMaps }

\* The event processed last for key k was an add or an update whose object
\* parsed.
LastParsed(k) ==
    /\ k \in DOMAIN lastEv
    /\ lastEv[k].kind \in {"add", "update"}
    /\ ParseNamespaceConfigMap(lastEv[k].cm, cfg).ok

\* C20: the registry has an entry for a key exactly when the event processed
\* last for the key was an add or an update whose object parsed, and the
\* entry is the parse result of that object.
C20_RegistryFollowsLastEvent ==
    \A k \in RegistryKeys :
        /\ k \in DOMAIN configs <=> LastParsed(k)
        /\ k \in DOMAIN configs =>
              configs[k] = ParseNamespaceConfigMap(lastEv[k].cm, cfg).cfg

\* One key lost its entry to an update that does not parse, after an add;
\* another key holds the result of an update that followed a delete.
C20_Witness ==
    \E k, l \in RegistryKeys :
        /\ k \in DOMAIN lastEv
        /\ lastEv[k].kind = "update"
        /\ lastEv[k].before = "add"
        /\ ~ParseNamespaceConfigMap(lastEv[k].cm, cfg).ok
        /\ k \notin DOMAIN configs
        /\ l \in DOMAIN configs
        /\ lastEv[l].kind = "update"
        /\ lastEv[l].before = "delete"

\* In this step an add or update event for key k was processed whose object
\* does not parse.
FailedUpsert(k) ==
    /\ k \in DOMAIN lastEv'
    /\ k \notin DOMAIN lastEv \/ lastEv'[k] # lastEv[k]
    /\ lastEv'[k].kind \in {"add", "update"}
    /\ ~ParseNamespaceConfigMap(lastEv'[k].cm, cfg).ok

\* C21: an add or update event whose object does not parse leaves the
\* registry without an entry for the key of the object, and with the entries
\* of all other keys as they were.
C21_FailClosedParse ==
    [][ \A k \in RegistryKeys :
          FailedUpsert(k) =>
              /\ k \notin DOMAIN configs'
              /\ \A l \in RegistryKeys \ {k} :
                    /\ l \in DOMAIN configs' <=> l \in DOMAIN configs
                    /\ l \in DOMAIN configs => configs'[l] = configs[l] ]_vars

\* The event processed last for one key was an update of a malformed object
\* that followed an add, the key has no entry, and another key has one.
C21_Witness ==
    \E k, l \in RegistryKeys :
        /\ k # l
        /\ k \in DOMAIN lastEv
        /\ lastEv[k].kind = "update"
        /\ lastEv[k].before = "add"
        /\ lastEv[k].cm.malformed
        /\ k \notin DOMAIN configs
        /\ l \in DOMAIN configs

-----------------------------------------------------------------------------
(* Properties of the conversion keys (SpecKeys) *)

Built == call.op = "KeysFromNamespaceConfig"

\* The keys that records of the config are converted with are the config's
\* annotation keys and the central composition label key.
KeysUsed ==
    /\ call.keys.CreatorAnnotationKey = call.nsCfg.CreatorAnnotationKey
    /\ call.keys.TeamAnnotationKey = call.nsCfg.TeamAnnotationKey
    /\ call.keys.CompositionLabelKey = cfg.CompositionLabelKey

\* C23 as stated: an annotation key missing from the data of the ConfigMap
\* is the central one, a key that is in the data is the value of the data,
\* and the composition label key is the central one.
C23_PresentKeyOverrides ==
    Built =>
        /\ KeysUsed
        /\ IF "CREATOR_ANNOTATION_KEY" \in DOMAIN call.cm.data
           THEN call.nsCfg.CreatorAnnotationKey = call.cm.data["CREATOR_ANNOTATION_KEY"]
           ELSE call.nsCfg.CreatorAnnotationKey = cfg.CreatorAnnotationKey
        /\ IF "TEAM_ANNOTATION_KEY" \in DOMAIN call.cm.data
           THEN call.nsCfg.TeamAnnotationKey = call.cm.data["TEAM_ANNOTATION_KEY"]
           ELSE call.nsCfg.TeamAnnotationKey = cfg.TeamAnnotationKey

\* C23: an annotation key that is missing from the data of the ConfigMap or
\* empty in it is the central one, a key with a non-empty value in the data
\* is that value, and the composition label key is the central one.
C23_NonEmptyKeyOverrides ==
    Built =>
        /\ KeysUsed
        /\ IF DataValue(call.cm, "CREATOR_ANNOTATION_KEY") # ""
           THEN call.nsCfg.CreatorAnnotationKey = call.cm.data["CREATOR_ANNOTATION_KEY"]
           ELSE call.nsCfg.CreatorAnnotationKey = cfg.CreatorAnnotationKey
        /\ IF DataValue(call.cm, "TEAM_ANNOTATION_KEY") # ""
           THEN call.nsCfg.TeamAnnotationKey = call.cm.data["TEAM_ANNOTATION_KEY"]
           ELSE call.nsCfg.TeamAnnotationKey = cfg.TeamAnnotationKey

\* The ConfigMap sets the creator key, has an empty team key and a
\* composition label key of its own, and the central configuration has all
\* three keys, the composition label key not the default one.
C23_Witness ==
    /\ Built
    /\ DataValue(call.cm, "CREATOR_ANNOTATION_KEY") = "ns/key"
    /\ "TEAM_ANNOTATION_KEY" \in DOMAIN call.cm.data
    /\ call.cm.data["TEAM_ANNOTATION_KEY"] = ""
    /\ DataValue(call.cm, "COMPOSITION_LABEL_KEY") = "ns/key"
    /\ cfg.CreatorAnnotationKey # ""
    /\ cfg.TeamAnnotationKey # ""
    /\ cfg.CompositionLabelKey = "central/composition"
    /\ call.keys.CreatorAnnotationKey = "ns/key"
    /\ call.keys.TeamAnnotationKey = cfg.TeamAnnotationKey

-----------------------------------------------------------------------------
(* Properties of the poll loop (SpecRun) *)

\* C24: once the context is cancelled, Run returns, wherever the poller was
\* when the signal arrived.
C24_RunReturnsAfterCancel == ctx.done ~> pc = "returned"

\* Run has returned after a signal that arrived in the middle of a cycle.
C24_Witness ==
    /\ pc = "returned"
    /\ ctx.at = "cycle"

\* poll() has just been entered.
CycleBegun == pc \notin {"start", "idle", "done", "returned"} /\ cycle.attempted = {}
                 /\ cycle.reads = 0 /\ cycle.enriched = 0

\* C25: while the context is not cancelled a new cycle begins again and
\* again, also after a cycle that had list errors or whose Persist failed.
C25_CyclesRecur ==
    /\ []<>(ctx.done \/ CycleBegun)
    /\ (pc = "done" /\ CycleFailed)
          ~> (ctx.done \/ (CycleBegun /\ cycle.after \in {"failed", "unsaved"}))

\* A cycle has begun after a cycle that failed, the context not cancelled.
C25_Witness ==
    /\ CycleBegun
    /\ cycle.after = "failed"
    /\ ~ctx.done

-----------------------------------------------------------------------------
(* Properties of a cycle beside a live registry (SpecLive) *)

\* The poll functions a cycle calls for the snapshot cs of the registry, given
\* the GVR strings the central loops have handled: one per GVR of every
\* config of cs that is not among them.
NsAttempts(cs, centralXR, centralClaim) ==
    UNION { { <<"xr", GVRString(cs[c].XRGVRs[g]), cs[c].Namespace>> :
                 g \in { h \in 1..Len(cs[c].XRGVRs) :
                            GVRString(cs[c].XRGVRs[h]) \notin centralXR } }
            \cup
            { <<"claim", GVRString(cs[c].ClaimGVRs[g]), cs[c].Namespace>> :
                 g \in { h \in 1..Len(cs[c].ClaimGVRs) :
                            GVRString(cs[c].ClaimGVRs[h]) \notin centralClaim } }
            : c \in 1..Len(cs) }

\* The poll functions the central loops of a cycle call.
CentralAttempts ==
    { <<"xr", GVRString(cfg.XRGVRs[i]), "">> : i \in 1..Len(cfg.XRGVRs) }
    \cup { <<"claim", GVRString(cfg.ClaimGVRs[i]), "">> : i \in 1..Len(cfg.ClaimGVRs) }

\* A handler of the registry has run.
RegistryEvent == configs' # configs

\* C26: a cycle reads the registry once, after the central loops; what it
\* reads is the registry of that moment, so every event processed before the
\* read is in it; an event during the cycle leaves the snapshot and the
\* position of the cycle alone; and the cycle polls the configs of its
\* snapshot, whatever the registry holds when it ends.
C26_RegistryReadOncePerCycle ==
    /\ [](cfg.Watch =>
            /\ pc \in {"centralXR", "centralClaim", "nsRead"} => cycle.reads = 0
            /\ pc \in {"nsXR", "nsClaim", "enrich", "persist", "done"} => cycle.reads = 1)
    /\ [][ cycle'.reads # cycle.reads /\ cycle'.reads > 0 =>
              /\ CentralAttempts \subseteq cycle.attempted
              /\ SeqToSet(nsConfigs') = RecordsOf(configs)
              /\ Len(nsConfigs') = Cardinality(DOMAIN configs) ]_vars
    /\ [][ RegistryEvent => UNCHANGED <<nsConfigs, pc, ci, gi, cycle>> ]_vars
    /\ [](pc = "done" =>
            cycle.attempted \ CentralAttempts
               = NsAttempts(nsConfigs, centralXRGVRs, centralClaimGVRs))

\* A cycle ends having polled for a config that an event has since removed
\* from the registry, and not for a config that an event has since added.
C26_Witness ==
    /\ pc = "done"
    /\ \E c \in SeqToSet(nsConfigs) : c \notin RecordsOf(configs)
    /\ \E c \in RecordsOf(configs) : c \notin SeqToSet(nsConfigs)
    /\ cycle.attempted \ CentralAttempts # {}
    /\ cycle.attempted \ CentralAttempts
          # NsAttempts(SetToSeq(RecordsOf(configs)), centralXRGVRs, centralClaimGVRs)

-----------------------------------------------------------------------------
(* Properties of the order of a cycle (SpecPersist) *)

\* C27: a cycle calls EnrichClaimCompositions once: not before its last
\* ReplaceClaims / ReplaceXRs call, and before the persistence step, whether
\* or not a list of the cycle failed.
C27_EnrichOnceAfterReplaces ==
    /\ [](pc \in {"centralXR", "centralClaim", "nsRead", "nsXR", "nsClaim", "enrich"}
             => cycle.enriched = 0)
    /\ [](pc \in {"persist", "done"} => cycle.enriched = 1 /\ lastOp.op = "Enrich")
    /\ [][ lastOp'.op \in {"ReplaceClaims", "ReplaceXRs"} => cycle'.enriched = 0 ]_vars
    /\ [][ persistCalled' /\ ~persistCalled => cycle.enriched = 1 ]_vars

\* A cycle in which a list failed and another list led to a Replace call
\* has ended, enriched once.
C27_Witness ==
    /\ pc = "done"
    /\ listFailed
    /\ replaced # {}
    /\ cycle.enriched = 1

\* The namespace part of poll(): the registry read and pollNamespaceConfigsList.
InNamespacePart == pc \in {"nsRead", "nsXR", "nsClaim"}

\* C28: the central composite GVRs are polled first, the central claim GVRs
\* next, and every one of them before the registry is read and a GVR of a
\* namespace config is looked at: in the namespace part the two sets of
\* centrally handled GVR strings hold every central GVR.
C28_CentralBeforeNamespace ==
    /\ pc = "centralXR" => \A a \in cycle.attempted : a[1] = "xr" /\ a[3] = ""
    /\ pc = "centralClaim" =>
          /\ \A a \in cycle.attempted : a[3] = ""
          /\ \A i \in 1..Len(cfg.XRGVRs) :
                <<"xr", GVRString(cfg.XRGVRs[i]), "">> \in cycle.attempted
    /\ InNamespacePart =>
          /\ CentralAttempts \subseteq cycle.attempted
          /\ centralXRGVRs = { GVRString(cfg.XRGVRs[i]) : i \in 1..Len(cfg.XRGVRs) }
          /\ centralClaimGVRs = { GVRString(cfg.ClaimGVRs[i]) : i \in 1..Len(cfg.ClaimGVRs) }

\* The cycle is at a claim GVR of a namespace config that the central
\* configuration declares too, after a namespace poll call and after a
\* central list that failed.
C28_Witness ==
    /\ pc = "nsClaim"
    /\ GVRString(nsConfigs[ci].ClaimGVRs[gi]) \in centralClaimGVRs
    /\ cycle.attempted \ CentralAttempts # {}
    /\ listFailed

\* C29: a poll function that returns an error does not end the cycle: at
\* the end of every cycle a poll function has been called for every central
\* GVR and for every GVR of the namespace configs that is not polled
\* centrally, the partition of every GVR whose poll function returned no
\* error has been replaced, and the enrichment has been made.
C29_ListFailureDoesNotAbort ==
    pc = "done" =>
        /\ cycle.attempted
              = CentralAttempts \cup NsAttempts(nsConfigs, centralXRGVRs, centralClaimGVRs)
        /\ \A a \in cycle.attempted \ cycle.errs : <<a[1], a[2]>> \in replaced
        /\ cycle.enriched = 1

\* A cycle has ended in which the first central poll function failed, the
\* central poll function after it replaced its partition, and the poll
\* function called for a namespace config failed.
C29_Witness ==
    /\ pc = "done"
    /\ \E a \in cycle.errs : a[1] = "xr" /\ a[3] = ""
    /\ \E a \in cycle.attempted \ cycle.errs :
          a[1] = "claim" /\ a[3] = "" /\ <<a[1], a[2]>> \in replaced
    /\ \E a \in cycle.errs : a[3] # ""
    /\ cycle.enriched = 1

-----------------------------------------------------------------------------
(* Properties of the central namespace filter (Spec) *)

\* The central GVR at the position of the cycle.
CentralGVR == IF pc = "centralXR" THEN cfg.XRGVRs[ci] ELSE cfg.ClaimGVRs[ci]

\* pollXRs / pollClaims runs with a namespace filter.
FilteredCentralPoll ==
    /\ pc \in {"centralXR", "centralClaim"}
    /\ Len(cfg.Namespaces) > 0
    /\ cycle'.attempted # cycle.attempted

\* The objects of the GVR in the namespaces of the filter whose list did not
\* fail in the step.
ListedOk(gvr) ==
    { o \in cluster : o.gvr = gvr /\ o.ns \in SeqToSet(cfg.Namespaces) \ cycle'.failed }

\* C30: with a namespace filter, pollXRs / pollClaims lists the GVR in every
\* namespace of the filter, once each, and always ends with the Replace call
\* for the GVR, whose items are the objects of the namespaces whose list
\* succeeded, each once; when a list failed, the cycle is marked as having
\* errors.
C30_FilteredPollReplacesWithSuccesses ==
    [][ FilteredCentralPoll =>
          /\ lastOp'.op = (IF pc = "centralXR" THEN "ReplaceXRs" ELSE "ReplaceClaims")
          /\ lastOp'.caller = (IF pc = "centralXR" THEN "pollXRs" ELSE "pollClaims")
          /\ lastOp'.gvr = GVRString(CentralGVR)
          /\ <<IF pc = "centralXR" THEN "xr" ELSE "claim", GVRString(CentralGVR)>>
                \in replaced'
          /\ lastOp'.scopes = SeqToSet(cfg.Namespaces)
          /\ cycle'.failed \subseteq SeqToSet(cfg.Namespaces)
          /\ lastOp'.n = Cardinality(ListedOk(CentralGVR))
          /\ lastOp'.keys = { objectKey(o.ns, o.name) : o \in ListedOk(CentralGVR) }
          /\ (cycle'.failed # {}) = (<<IF pc = "centralXR" THEN "xr" ELSE "claim",
                                       GVRString(CentralGVR), "">> \in cycle'.errs)
          /\ cycle'.failed # {} => hadErrors' /\ listFailed' ]_vars

\* pollClaims has run with a filter of two namespaces: the list of the first
\* failed, the list of the second returned an object, and the Replace call
\* was made with that object; the cycle has errors.
C30_Witness ==
    /\ lastOp.caller = "pollClaims"
    /\ Len(cfg.Namespaces) = 2
    /\ cycle.failed = {cfg.Namespaces[1]}
    /\ lastOp.n = 1
    /\ lastOp.nss = {cfg.Namespaces[2]}
    /\ \E o \in cluster : o.gvr = Widgets /\ o.ns = cfg.Namespaces[1]
    /\ hadErrors

-----------------------------------------------------------------------------
(* Properties of the start and the pace of the loop (SpecRun) *)

\* Run takes the ticker case of its select.
TickTaken == pc = "idle" /\ pc' \notin {"idle", "returned"}

\* C31: the first cycle begins from the entry of Run, not from a tick: Run
\* is at its select only after a cycle has ended, and every cycle a tick
\* starts has a cycle before it.
C31_InitialPollBeforeTicks ==
    /\ [](pc \in {"idle", "returned"} => cycle.after # "none")
    /\ [][ TickTaken => cycle.after # "none" ]_vars
    /\ [][ (pc = "start" /\ pc' # pc) => (CycleBegun' /\ cycle'.after = "none") ]_vars

\* The first cycle has begun: no cycle has ended and no tick has been taken.
C31_Witness ==
    /\ CycleBegun
    /\ cycle.after = "none"

\* A poll() call is running.
InProgress == pc \notin {"start", "idle", "returned"}

\* C32: a cycle begins only when no poll() call is running, and while a
\* poll() call runs every step is a step of that cycle: the poll functions
\* it has called, its registry read and its enrichment are never reset, and
\* every store write is made at the position of that cycle.
C32_CyclesSequential ==
    /\ [][ (CycleBegun' /\ cycle' # cycle) => ~InProgress ]_vars
    /\ [][ (InProgress /\ InProgress') =>
              /\ cycle.attempted \subseteq cycle'.attempted
              /\ cycle.reads <= cycle'.reads
              /\ cycle.enriched <= cycle'.enriched
              /\ replaced \subseteq replaced' ]_vars
    /\ [][ (claims' # claims \/ xrs' # xrs) =>
              /\ InProgress
              /\ pc \in {"centralXR", "centralClaim", "nsXR", "nsClaim", "enrich"}
              /\ cycle'.attempted # cycle.attempted \/ cycle'.enriched = cycle.enriched + 1 ]_vars

\* A second cycle is in progress and has written to the store, after a
\* first cycle that wrote to the store.
C32_Witness ==
    /\ InProgress
    /\ cycle.after # "none"
    /\ replaced # {}
    /\ cycle.enriched = 0

-----------------------------------------------------------------------------
(* Properties of the persistence step (SpecPersist) *)

\* The persistence step of poll().
PersistStep == pc = "persist" /\ pc' = "done"

\* C33: with the S3 backend the persistence step calls Persist when no list
\* of the cycle failed, and only then; it comes after the enrichment; after
\* it the document is the encoding of the store as the cycle leaves it, or,
\* when Persist failed, the document of before; the store is not touched;
\* and this holds for every cycle, whatever the cycle before it did.
C33_PersistAfterSuccessfulCycle ==
    /\ [][ PersistStep =>
              /\ cycle.enriched = 1
              /\ persistCalled' = (~listFailed /\ cfg.StoreBackend = "s3")
              /\ IF persistCalled' THEN durable' \in {durable, Snapshot}
                                   ELSE durable' = durable
              /\ UNCHANGED <<claims, xrs>> ]_vars
    /\ [][ (durable' # durable \/ (persistCalled' /\ ~persistCalled)) => PersistStep ]_vars
    /\ [](pc = "done" => persistCalled = (~listFailed /\ cfg.StoreBackend = "s3"))

\* A cycle whose Persist failed has been followed by a cycle without list
\* errors that has written the document.
C33_Witness ==
    /\ pc = "done"
    /\ cycle.after = "unsaved"
    /\ persistCalled
    /\ durable = Snapshot
    /\ Snapshot.claims # {}

-----------------------------------------------------------------------------
(* Properties of the start of the process (SpecStartup) *)

\* Restore returns.
RestoreReturns == restored'.called /\ ~restored.called

\* C34: Restore returns before the first cycle begins: it runs on the store
\* as store.New() made it, with no poll function called yet; a Restore that
\* returns an error leaves that store empty; and once a cycle has begun no
\* step but a step of the poller writes to the store.
C34_RestoreBeforeFirstCycle ==
    /\ [][ RestoreReturns =>
              /\ pc = "start"
              /\ cycle = NoCycle
              /\ claims = EmptyMap /\ xrs = EmptyMap
              /\ restored'.err => UNCHANGED <<claims, xrs>> ]_vars
    /\ [](InProgress \/ cycle.after # "none" => restored.called)
    /\ [][ (InProgress /\ (claims' # claims \/ xrs' # xrs)) =>
              (cycle'.attempted # cycle.attempted \/ cycle'.enriched # cycle.enriched) ]_vars

\* The first cycle has replaced the claims that Restore had put into the
\* store: the restored claim of a polled GVR whose object is gone has left.
C34_Witness ==
    /\ restored.called
    /\ restored.got = "body"
    /\ pc = "done"
    /\ cycle.after = "none"
    /\ \E e \in evicted : e[1] = "claim"

-----------------------------------------------------------------------------
(* Properties of the select of Run (SpecRun) *)

\* C35: once the context is cancelled while Run is at its select, the only
\* step Run takes from there is to return; it does not take the ticker case
\* and start a cycle.
C35_NoCycleAfterIdleCancel ==
    [][ (ctx.done /\ pc = "idle") => pc' \in {"idle", "returned"} ]_vars

-----------------------------------------------------------------------------
(* Properties of the skip test (SpecLive) *)

\* C36: no poll function is called on behalf of a namespace config for a GVR
\* that the cycle has handled centrally, as a claim type or as a composite
\* type, whichever list of the config declares it.
C36_CentralGVRsSkippedInEitherList ==
    \A a \in cycle.attempted :
        a[3] # "" => a[2] \notin centralClaimGVRs \cup centralXRGVRs

-----------------------------------------------------------------------------
(* Properties of the identity of a composite (SpecLive) *)

\* C37: the stored composites have distinct names, and after an enrichment
\* every claim with a reference has the composition of the stored composite
\* whose name is the reference, whatever the namespace of that composite.
C37_CompositeIdentityIsName ==
    /\ \A j, k \in DOMAIN xrs : xrs[j].Name = xrs[k].Name => j = k
    /\ lastOp.op = "Enrich" =>
          \A c \in DOMAIN claims : \A x \in DOMAIN xrs :
              (claims[c].XRRef # "" /\ xrs[x].Name = claims[c].XRRef) =>
                  claims[c].Composition = xrs[x].Composition

-----------------------------------------------------------------------------
(* Properties of a cycle without a successful list (Spec) *)

\* C38: as long as no list of the running cycle has succeeded, no step of
\* the cycle changes the two maps, so a cycle in which every list fails ends
\* with the claims and composites it began with.
C38_AllListsFailedKeepsStore ==
    [][ (InProgress /\ InProgress' /\ ~cycle'.ok) => UNCHANGED <<claims, xrs>> ]_vars

-----------------------------------------------------------------------------
(* Properties of the order of the registry snapshot (Spec) *)

\* The claims map after pollNamespaceConfigsList has gone through the configs
\* of cs from the claim GVR g of config c on, every list succeeding: a GVR in
\* centralClaimGVRs is skipped, every other one is listed in the namespace of
\* its config and replaced.
RECURSIVE ClaimsAfterNsPolls(_, _, _, _)
ClaimsAfterNsPolls(m, cs, c, g) ==
    IF c > Len(cs) THEN m
    ELSE IF g > Len(cs[c].ClaimGVRs) THEN ClaimsAfterNsPolls(m, cs, c + 1, 1)
    ELSE LET gvr == cs[c].ClaimGVRs[g]
             items == ConvertClaims(ScopedList(gvr, cs[c].Namespace), gvr,
                                    KeysFromNamespaceConfig(cs[c], cfg))
         IN ClaimsAfterNsPolls(IF GVRString(gvr) \in centralClaimGVRs THEN m
                               ELSE Replace(m, GVRString(gvr), items),
                               cs, c, g + 1)

\* The same for the composites map: a GVR in centralXRGVRs is skipped, every
\* other one is listed cluster-wide and replaced.
RECURSIVE XRsAfterNsPolls(_, _, _, _)
XRsAfterNsPolls(m, cs, c, g) ==
    IF c > Len(cs) THEN m
    ELSE IF g > Len(cs[c].XRGVRs) THEN XRsAfterNsPolls(m, cs, c + 1, 1)
    ELSE LET gvr == cs[c].XRGVRs[g]
             items == ConvertXRs(List(gvr, ""), gvr, KeysFromNamespaceConfig(cs[c], cfg))
         IN XRsAfterNsPolls(IF GVRString(gvr) \in centralXRGVRs THEN m
                            ELSE Replace(m, GVRString(gvr), items),
                            cs, c, g + 1)

\* pollNamespaceConfigsList has returned and every list of the cycle succeeded.
NsPollsSucceeded == pc = "enrich" /\ ~listFailed

\* C39: when every list of a cycle has succeeded, the two maps are what any
\* other enumeration order of the same snapshot leaves: going through the
\* configs of the snapshot in any order, over the same cluster, changes
\* neither map, so the enrichment that follows gives the same store.
C39_SnapshotOrderIrrelevant ==
    NsPollsSucceeded =>
        \A o \in Orderings(SeqToSet(nsConfigs)) :
            /\ ClaimsAfterNsPolls(claims, o, 1, 1) = claims
            /\ XRsAfterNsPolls(xrs, o, 1, 1) = xrs

\* The order the cycle has used leaves the maps as they are when it is gone
\* through again.
C39_SameOrderRepeats ==
    NsPollsSucceeded =>
        /\ ClaimsAfterNsPolls(claims, nsConfigs, 1, 1) = claims
        /\ XRsAfterNsPolls(xrs, nsConfigs, 1, 1) = xrs

\* C40: at the end of a cycle without list failure that follows a Restore
\* which replayed a document, every stored record is one of an object that
\* a list of the cycle returned: its GVR was polled in the cycle and its
\* object exists; and so is every record of the document the cycle wrote.
C40_RestoredRecordsRelisted ==
    (restored.called /\ restored.got = "body" /\ pc = "done" /\ ~listFailed) =>
        /\ \A r \in SnapshotClaims :
              /\ r.GVR \in centralClaimGVRs \cup NsClaimGVRs
              /\ \E o \in cluster : RecordOf(r, o)
        /\ \A r \in SnapshotXRs :
              /\ r.GVR \in centralXRGVRs \cup NsXRGVRs
              /\ \E o \in cluster : RecordOf(r, o)
        /\ (persistCalled /\ durable = Snapshot) =>
              \A j \in durable.claims : j.gvr \in centralClaimGVRs \cup NsClaimGVRs

====
